---- MODULE Spec2Model ----
(***************************************************************************)
(* Food Safety Monitor API (src/app.py): the in-memory freshness cache,    *)
(* the FDA and CPSC source adapters, the CPSC normalizer and the request   *)
(* handlers get_recalls, search_recalls, get_stats, test_api, update_data. *)
(*                                                                         *)
(* Text is modelled as a sequence of one-character strings, so that        *)
(* lower(), substring search and join are computed, not assumed.  A JSON   *)
(* null (Python None) field value is the one-element sequence Null.        *)
(* An optional Python value is a sequence: <<>> is None, <<v>> is v.       *)
(***************************************************************************)
EXTENDS Integers, Sequences, FiniteSets, TLC

(***************************************************************************)
(* Text                                                                    *)
(***************************************************************************)
Null == <<"NULL">>

UpperAlpha ==
  <<"A","B","C","D","E","F","G","H","I","J","K","L","M",
    "N","O","P","Q","R","S","T","U","V","W","X","Y","Z">>

LowerAlpha ==
  <<"a","b","c","d","e","f","g","h","i","j","k","l","m",
    "n","o","p","q","r","s","t","u","v","w","x","y","z">>

\* str.lower() on one character
LowerChar(c) ==
  IF \E i \in 1..Len(UpperAlpha) : UpperAlpha[i] = c
  THEN LowerAlpha[CHOOSE i \in 1..Len(UpperAlpha) : UpperAlpha[i] = c]
  ELSE c

\* str.lower()
Lower(s) == [i \in 1..Len(s) |-> LowerChar(s[i])]

\* Python's "needle in hay" on strings
Contains(hay, needle) ==
  \E i \in 0..(Len(hay) - Len(needle)) :
    \A j \in 1..Len(needle) : hay[i + j] = needle[j]

\* sep.join(parts)
RECURSIVE Join(_, _)
Join(sep, parts) ==
  IF parts = <<>> THEN <<>>
  ELSE IF Len(parts) = 1 THEN parts[1]
  ELSE parts[1] \o sep \o Join(sep, Tail(parts))

\* filter(None, parts): the truthy (non-empty) strings, in order
Truthy(parts) == SelectSeq(parts, LAMBDA p : p # <<>>)

Digit(n) == <<"0","1","2","3","4","5","6","7","8","9">>[n + 1]

\* str(n) for a natural number
RECURSIVE Str(_)
Str(n) == IF n < 10 THEN <<Digit(n)>> ELSE Str(n \div 10) \o <<Digit(n % 10)>>

\* f"{n:03d}"
Pad3(n) ==
  LET s == Str(n) IN
  IF Len(s) >= 3 THEN s
  ELSE IF Len(s) = 2 THEN <<"0">> \o s ELSE <<"0","0">> \o s

\* String literals used by the code
SP           == <<" ">>
NA           == <<"N","/","A">>
FDA          == <<"F","D","A">>
CPSC         == <<"C","P","S","C">>
FdaDash      == <<"F","D","A","-">>
CpscDash     == <<"C","P","S","C","-">>
Dash3        == <<" ","-"," ">>
Bar3         == <<" ","|"," ">>
HazardPfx    == <<"H","a","z","a","r","d",":"," ">>
InjuriesPfx  == <<"I","n","j","u","r","i","e","s",":"," ">>
OfPfx        == <<",", " ", "o", "f", " ">>
ConsumerProduct ==
  <<"C","o","n","s","u","m","e","r"," ","P","r","o","d","u","c","t">>
SeeCpsc ==
  <<"S","e","e"," ","C","P","S","C"," ","f","o","r"," ",
    "d","e","t","a","i","l","s">>
UnknownManufacturer ==
  <<"U","n","k","n","o","w","n"," ",
    "M","a","n","u","f","a","c","t","u","r","e","r">>
Active       == <<"A","c","t","i","v","e">>
DefaultDate  == <<"2","0","2","4","0","1","0","1">>
NoneStr      == <<"N","o","n","e">>

(***************************************************************************)
(* Upstream JSON.  A list element is an entry: a keyed record (dict) with  *)
(* its key/value map kv, or something else (a string, a number, null).     *)
(* Field values are strings or null.                                       *)
(***************************************************************************)
Dict(kv) == [isdict |-> TRUE, kv |-> kv]

NotADict == [isdict |-> FALSE, kv |-> [junk |-> Null]]

\* dict.get(key, default): the default only when the key is absent
Get(entry, key, default) ==
  IF key \in DOMAIN entry.kv THEN entry.kv[key] ELSE default

(***************************************************************************)
(* The outcome of one outbound requests.get().  kind "response" carries    *)
(* an HTTP status and a body; the body is JSON or not, its top level is a  *)
(* dict or a list, a dict has "results" as a list, as null, or not at all. *)
(***************************************************************************)
NoBody == [json |-> FALSE, shape |-> "none", results |-> "absent", items |-> <<>>]

DictBody(items) ==
  [json |-> TRUE, shape |-> "dict", results |-> "list", items |-> items]

DictNoResults ==
  [json |-> TRUE, shape |-> "dict", results |-> "absent", items |-> <<>>]

DictNullResults ==
  [json |-> TRUE, shape |-> "dict", results |-> "null", items |-> <<>>]

ListBody(items) ==
  [json |-> TRUE, shape |-> "list", results |-> "absent", items |-> items]

Timeout == [kind |-> "Timeout", status |-> 0, body |-> NoBody]

ConnError == [kind |-> "ConnectionError", status |-> 0, body |-> NoBody]

Response(status, body) == [kind |-> "response", status |-> status, body |-> body]

(***************************************************************************)
(* Exceptions.  An operator that can raise returns [exc, ret, http]: exc   *)
(* is the class raised ("" when it returned), ret the value returned, http *)
(* the outbound requests issued (TRUE: the request carried the query).     *)
(***************************************************************************)
\* subclasses of requests.RequestException (requests' JSONDecodeError is one)
RequestExceptionClasses ==
  {"Timeout", "ConnectionError", "HTTPError", "JSONDecodeError"}

\* subclasses of Exception that the modelled code can raise
ExceptionClasses ==
  RequestExceptionClasses \cup {"AttributeError", "TypeError", "KeyError"}

Return(v, http) == [exc |-> "", ret |-> v, http |-> http]

Raise(cls, http) == [exc |-> cls, ret |-> <<>>, http |-> http]

\* response.raise_for_status(): HTTPError for 4xx and 5xx
RaisesForStatus(status) == status >= 400 /\ status < 600

\* what a loop raises, given what each iteration raises ("" if nothing):
\* the first exception, since it ends the loop
FirstRaised(excs) ==
  IF \E i \in 1..Len(excs) : excs[i] # ""
  THEN excs[CHOOSE i \in 1..Len(excs) :
              excs[i] # "" /\ \A j \in 1..(i - 1) : excs[j] = ""]
  ELSE ""

(***************************************************************************)
(* FDA source adapter                                                      *)
(***************************************************************************)
\* the text searched by the local filter: ' '.join([...]).lower()
FdaSearchableText(recall) ==
  Lower(Join(SP, << Get(recall, "product_description", <<>>),
                    Get(recall, "reason_for_recall", <<>>),
                    Get(recall, "recalling_firm", <<>>) >>))

\* what evaluating the local filter on one entry raises ("" if nothing):
\* .get on a non-dict, or join over a null value
FdaFilterRaises(recall) ==
  IF ~recall.isdict THEN "AttributeError"
  ELSE IF \E k \in {"product_description", "reason_for_recall", "recalling_firm"} :
            Get(recall, k, <<>>) = Null
       THEN "TypeError"
       ELSE ""

\* "Filtering ... FDA recalls locally": the entries whose text contains the query
FdaFilterLocally(recalls, search_query) ==
  LET exc == FirstRaised([i \in 1..Len(recalls) |-> FdaFilterRaises(recalls[i])])
  IN
  IF exc # "" THEN Raise(exc, <<>>)
  ELSE Return(SelectSeq(recalls,
                LAMBDA r : Contains(FdaSearchableText(r), Lower(search_query))),
              <<>>)

\* one processed_recall; n is len(processed_recalls) when it is built
FdaProcessOne(recall, n) ==
  [ id                   |-> Get(recall, "recall_number", FdaDash \o Str(n)),
    recall_number        |-> Get(recall, "recall_number", NA),
    product_description  |-> Get(recall, "product_description", NA),
    reason_for_recall    |-> Get(recall, "reason_for_recall", NA),
    company              |-> Get(recall, "recalling_firm", NA),
    date                 |-> Get(recall, "recall_initiation_date", NA),
    classification       |-> Get(recall, "classification", NA),
    status               |-> Get(recall, "status", NA),
    distribution_pattern |-> Get(recall, "distribution_pattern", NA),
    product_quantity     |-> Get(recall, "product_quantity", NA),
    source               |-> FDA ]

\* "Process and clean the data": .get on a non-dict entry raises
FdaProcess(recalls) ==
  IF \E i \in 1..Len(recalls) : ~recalls[i].isdict
  THEN Raise("AttributeError", <<>>)
  ELSE Return([i \in 1..Len(recalls) |-> FdaProcessOne(recalls[i], i - 1)], <<>>)

\* from response.raise_for_status() to the return; fellBack: response is the
\* one of the request without the query, whose url holds no 'search='
FdaParse(response, search_query, fellBack) ==
  IF RaisesForStatus(response.status) THEN Raise("HTTPError", <<>>)
  ELSE IF ~response.body.json THEN Raise("JSONDecodeError", <<>>)
  ELSE IF response.body.shape # "dict" THEN Raise("AttributeError", <<>>)
  ELSE IF response.body.results = "null" THEN Raise("TypeError", <<>>)
  ELSE
    LET recalls == response.body.items
        Processed(filtered) ==
          IF filtered.exc # "" THEN filtered ELSE FdaProcess(filtered.ret)
    IN Processed(IF search_query # <<>> /\ (fellBack \/ Len(recalls) = 0)
                 THEN FdaFilterLocally(recalls, search_query)
                 ELSE Return(recalls, <<>>))

\* the body of the try block; o1 answers the first request, o2 the fallback
FdaTry(search_query, o1, o2) ==
  LET hasq == search_query # <<>> IN
  IF o1.kind # "response" THEN Raise(o1.kind, <<hasq>>)
  ELSE IF o1.status # 200 /\ hasq
  THEN \* "trying fallback approaches": get all data and filter locally
       IF o2.kind # "response" THEN Raise(o2.kind, <<hasq, FALSE>>)
       ELSE IF o2.status # 200 THEN Return(<<>>, <<hasq, FALSE>>)
       ELSE LET r == FdaParse(o2, search_query, TRUE)
            IN [r EXCEPT !.http = <<hasq, FALSE>>]
  ELSE LET r == FdaParse(o1, search_query, FALSE)
       IN [r EXCEPT !.http = <<hasq>>]

\* handlers without the final "except Exception"
FdaCaughtRequestsOnly == RequestExceptionClasses

\* the classes the adapter's handlers catch:
\* except requests.RequestException, except Exception
FdaCaught == RequestExceptionClasses \cup ExceptionClasses

fetch_fda_recalls_with_search(search_query, o1, o2) ==
  LET Caught(r) == IF r.exc \in FdaCaught THEN Return(<<>>, r.http) ELSE r
  IN Caught(FdaTry(search_query, o1, o2))

(***************************************************************************)
(* CPSC normalizer                                                         *)
(***************************************************************************)
\* Python truthiness of a field value: None and '' are falsy
IsTruthy(v) == v # <<>> /\ v # Null

\* str(v)
PyStr(v) == IF v = Null THEN NoneStr ELSE v

\* s.replace('T', ' ').replace('Z', '')
ReplaceTZ(s) ==
  LET spaced == [i \in 1..Len(s) |-> IF s[i] = "T" THEN " " ELSE s[i]]
  IN SelectSeq(spaced, LAMBDA c : c # "Z")

IsDigit(c) == c \in {"0","1","2","3","4","5","6","7","8","9"}

DigitVal(c) == CHOOSE n \in 0..9 : Digit(n) = c

\* the number written by the two digits at i, i+1 (-1 if they are not digits)
Num2(s, i) ==
  IF IsDigit(s[i]) /\ IsDigit(s[i + 1])
  THEN 10 * DigitVal(s[i]) + DigitVal(s[i + 1]) ELSE -1

IsLeap(y) == (y % 4 = 0 /\ y % 100 # 0) \/ y % 400 = 0

DaysIn(y, m) ==
  IF m \in {4, 6, 9, 11} THEN 30
  ELSE IF m = 2 THEN (IF IsLeap(y) THEN 29 ELSE 28) ELSE 31

\* datetime.fromisoformat accepts s: YYYY-MM-DD, optionally followed by one
\* separator character and HH, HH:MM or HH:MM:SS (the forms every Python 3
\* accepts; fractions and offsets are not in the modelled inputs)
IsIsoFormat(s) ==
  /\ Len(s) \in {10, 13, 16, 19}
  /\ Num2(s, 1) >= 0 /\ Num2(s, 3) >= 0 /\ 100 * Num2(s, 1) + Num2(s, 3) >= 1
  /\ s[5] = "-" /\ s[8] = "-"
  /\ Num2(s, 6) >= 1 /\ Num2(s, 6) <= 12
  /\ Num2(s, 9) >= 1
  /\ Num2(s, 9) <= DaysIn(100 * Num2(s, 1) + Num2(s, 3), Num2(s, 6))
  /\ Len(s) >= 13 => Num2(s, 12) >= 0 /\ Num2(s, 12) <= 23
  /\ Len(s) >= 16 => s[14] = ":" /\ Num2(s, 15) >= 0 /\ Num2(s, 15) <= 59
  /\ Len(s) >= 19 => s[17] = ":" /\ Num2(s, 18) >= 0 /\ Num2(s, 18) <= 59

\* dt.strftime('%Y%m%d') of a string fromisoformat accepted
IsoToYmd(s) == SubSeq(s, 1, 4) \o SubSeq(s, 6, 7) \o SubSeq(s, 9, 10)

\* "Date formatting"
CpscDate(recall) ==
  LET date == Get(recall, "RecallDate", DefaultDate) IN
  IF Contains(PyStr(date), <<"T">>)
  THEN IF IsIsoFormat(ReplaceTZ(date)) THEN IsoToYmd(ReplaceTZ(date))
       ELSE DefaultDate
  ELSE date

\* a classification taken from the raw record
CpscClassificationFromHazards(recall) == Get(recall, "Hazards", ConsumerProduct)

\* 'classification': 'Consumer Product'
CpscClassification(recall) == ConsumerProduct

\* one normalized_recall; i is the entry's index in raw_recalls, from 0
CpscNormalizeOne(recall, i) ==
  LET recall_number        == Get(recall, "RecallNumber", CpscDash \o Pad3(i + 1))
      recall_id            == Get(recall, "RecallID", recall_number)
      product_names        == Get(recall, "ProductNames", <<>>)
      product_descriptions == Get(recall, "ProductDescriptions", <<>>)
      title                == Get(recall, "Title", <<>>)
      product_description_parts ==
        (IF IsTruthy(title) THEN <<title>> ELSE <<>>)
        \o (IF IsTruthy(product_names) THEN <<product_names>> ELSE <<>>)
        \o (IF IsTruthy(product_descriptions)
            THEN <<product_descriptions>> ELSE <<>>)
      product_description ==
        IF Join(Dash3, Truthy(product_description_parts)) # <<>>
        THEN Join(Dash3, Truthy(product_description_parts))
        ELSE ConsumerProduct
      hazards     == Get(recall, "Hazards", <<>>)
      injuries    == Get(recall, "Injuries", <<>>)
      description == Get(recall, "Description", <<>>)
      reason_parts ==
        (IF IsTruthy(hazards) THEN <<HazardPfx \o hazards>> ELSE <<>>)
        \o (IF IsTruthy(injuries) THEN <<InjuriesPfx \o injuries>> ELSE <<>>)
        \o (IF IsTruthy(description) /\ ~IsTruthy(hazards) /\ ~IsTruthy(injuries)
            THEN <<description>> ELSE <<>>)
      reason_for_recall ==
        IF Join(Bar3, Truthy(reason_parts)) # <<>>
        THEN Join(Bar3, Truthy(reason_parts))
        ELSE SeeCpsc
      manufacturers          == Get(recall, "Manufacturers", UnknownManufacturer)
      manufacturer_countries == Get(recall, "ManufacturerCountries", <<>>)
      company ==
        IF IsTruthy(manufacturers) /\ IsTruthy(manufacturer_countries)
        THEN manufacturers \o OfPfx \o manufacturer_countries
        ELSE IF IsTruthy(manufacturers) THEN manufacturers
        ELSE UnknownManufacturer
  IN
  [ id                   |-> PyStr(recall_id),
    recall_number        |-> recall_number,
    product_description  |-> product_description,
    reason_for_recall    |-> reason_for_recall,
    company              |-> company,
    date                 |-> CpscDate(recall),
    classification       |-> CpscClassification(recall),
    status               |-> Active,
    distribution_pattern |-> SeeCpsc,
    product_quantity     |-> Get(recall, "NumberOfUnits", SeeCpsc),
    source               |-> CPSC ]

\* entries that are not dicts are skipped; with string or null field values
\* nothing inside the per-entry try block raises
RECURSIVE CpscNormalizeFrom(_, _)
CpscNormalizeFrom(raw_recalls, i) ==
  IF i >= Len(raw_recalls) THEN <<>>
  ELSE (IF raw_recalls[i + 1].isdict
        THEN <<CpscNormalizeOne(raw_recalls[i + 1], i)>> ELSE <<>>)
       \o CpscNormalizeFrom(raw_recalls, i + 1)

normalize_cpsc_recalls(raw_recalls) == CpscNormalizeFrom(raw_recalls, 0)

(***************************************************************************)
(* CPSC source adapter                                                     *)
(***************************************************************************)
CpscSearchKeys ==
  <<"ProductNames", "ProductDescriptions", "Title", "Manufacturers", "Hazards">>

CpscSearchableText(recall) ==
  Lower(Join(SP, [i \in 1..Len(CpscSearchKeys) |->
                    Get(recall, CpscSearchKeys[i], <<>>)]))

CpscFilterRaises(recall) ==
  IF ~recall.isdict THEN "AttributeError"
  ELSE IF \E i \in 1..Len(CpscSearchKeys) :
            Get(recall, CpscSearchKeys[i], <<>>) = Null
       THEN "TypeError"
       ELSE ""

\* "Filter locally"
CpscFilterLocally(all_data, search_query) ==
  LET exc == FirstRaised([i \in 1..Len(all_data) |-> CpscFilterRaises(all_data[i])])
  IN
  IF exc # "" THEN Raise(exc, <<>>)
  ELSE Return(SelectSeq(all_data,
                LAMBDA r : Contains(CpscSearchableText(r), Lower(search_query))),
              <<>>)

\* isinstance(data, list) and len(data) > 0, for a parsed body
NonEmptyList(body) == body.shape = "list" /\ Len(body.items) > 0

\* "If we got no results with search, try getting all data and filter
\* locally": the value of data afterwards, as [exc, ret, http] with
\* ret = <<>> when data is left empty or not a list
CpscAllData(search_query, o2) ==
  IF o2.kind # "response" THEN Raise(o2.kind, <<>>)
  ELSE IF o2.status # 200 THEN Return(<<>>, <<>>)
  ELSE IF ~o2.body.json THEN Raise("JSONDecodeError", <<>>)
  ELSE IF ~NonEmptyList(o2.body) THEN Return(<<>>, <<>>)
  ELSE CpscFilterLocally(o2.body.items, search_query)

\* the body of the try blocks; o1 answers the first request, o2 the second
CpscTry(search_query, o1, o2) ==
  LET hasq == search_query # <<>> IN
  IF o1.kind # "response" THEN Raise(o1.kind, <<hasq>>)
  ELSE IF o1.status # 200 THEN Return(<<>>, <<hasq>>)
  ELSE IF ~o1.body.json THEN Raise("JSONDecodeError", <<hasq>>)
  ELSE IF hasq /\ ~NonEmptyList(o1.body)
  THEN LET Normalized(d) ==
             IF d.exc # "" THEN [d EXCEPT !.http = <<hasq, FALSE>>]
             ELSE Return(normalize_cpsc_recalls(d.ret), <<hasq, FALSE>>)
       IN Normalized(CpscAllData(search_query, o2))
  ELSE IF NonEmptyList(o1.body)
  THEN Return(normalize_cpsc_recalls(o1.body.items), <<hasq>>)
  ELSE Return(<<>>, <<hasq>>)

\* the classes the adapter's handlers catch: except json.JSONDecodeError,
\* except requests.Timeout / ConnectionError / RequestException,
\* except Exception
CpscCaught ==
  {"JSONDecodeError"} \cup RequestExceptionClasses \cup ExceptionClasses

fetch_cpsc_recalls_with_search(search_query, o1, o2) ==
  LET Caught(r) == IF r.exc \in CpscCaught THEN Return(<<>>, r.http) ELSE r
  IN Caught(CpscTry(search_query, o1, o2))

(***************************************************************************)
(* Freshness cache.  cache is a function from the keys present to          *)
(* [data, timestamp]; data is optional (None at start).                    *)
(***************************************************************************)
CACHE_DURATION == 3600

Keys == {"fda_recalls", "cpsc_recalls", "stats"}

None == <<>>

InitialCache == [k \in Keys |-> [data |-> None, timestamp |-> 0]]

\* is_cache_valid with the comparison cache_age <= CACHE_DURATION
is_cache_valid_inclusive(c, t, cache_key) ==
  IF cache_key \notin DOMAIN c THEN FALSE
  ELSE t - c[cache_key].timestamp <= CACHE_DURATION

is_cache_valid(c, t, cache_key) ==
  IF cache_key \notin DOMAIN c THEN FALSE
  ELSE t - c[cache_key].timestamp < CACHE_DURATION

\* get_cached_data without the age check
get_cached_data_any_age(c, t, cache_key) ==
  IF cache_key \in DOMAIN c THEN c[cache_key].data ELSE None

get_cached_data(c, t, cache_key) ==
  IF is_cache_valid(c, t, cache_key) THEN c[cache_key].data ELSE None

\* a put whose timestamp is in place before its data is
set_cache_data_keeping_data(c, t, cache_key, data) ==
  [k \in (DOMAIN c) \cup {cache_key} |->
     IF k = cache_key
     THEN [data |-> IF k \in DOMAIN c THEN c[k].data ELSE <<data>>, timestamp |-> t]
     ELSE c[k]]

set_cache_data(c, t, cache_key, data) ==
  [k \in (DOMAIN c) \cup {cache_key} |->
     IF k = cache_key THEN [data |-> <<data>>, timestamp |-> t] ELSE c[k]]

\* a clear that, run on an empty cache, puts the initial entries back
cache_clear_restoring(c) ==
  IF DOMAIN c = {} THEN [k \in Keys |-> [data |-> None, timestamp |-> 0]]
  ELSE [k \in {} |-> [data |-> None, timestamp |-> 0]]

\* a clear that forgets the stats key
cache_clear_keeps_stats(c) == [k \in (DOMAIN c) \cap {"stats"} |-> c[k]]

\* a clear that removes nothing
cache_clear_nothing(c) == c

\* cache.clear()
cache_clear(c) == [k \in {} |-> [data |-> None, timestamp |-> 0]]

\* "if cached_data:" -- None is falsy, and so is an empty list
IsTruthyList(opt) == opt # None /\ opt[1] # <<>>

(***************************************************************************)
(* The events of one handler step, in order: cache get / put / clear,      *)
(* adapter calls and outbound http requests.  k is the cache key or the    *)
(* source, q whether a query was carried, d the value read, written or     *)
(* returned (optional); a clear event carries the set of keys that were    *)
(* valid when it ran.                                                      *)
(***************************************************************************)
Ev(e, k, q, d) == [e |-> e, k |-> k, q |-> q, d |-> d]

AdapterLog(src, search_query, a) ==
  <<Ev("adapter", src, search_query # <<>>, <<a.ret>>)>>
  \o [i \in 1..Len(a.http) |-> Ev("http", src, a.http[i], None)]

\* a source's records for one request: [cache, ret, log, exc]
Fetched(c, ret, log, exc) == [cache |-> c, ret |-> ret, log |-> log, exc |-> exc]

\* a search path that serves what the cache holds before calling the adapter
DirectFdaReadingCache(c, search_query, o1, o2) ==
  LET Got(a) ==
        IF "fda_recalls" \in DOMAIN c /\ IsTruthyList(c["fda_recalls"].data)
        THEN Fetched(c, c["fda_recalls"].data[1],
                     <<Ev("get", "fda_recalls", FALSE, c["fda_recalls"].data)>>, "")
        ELSE Fetched(c, a.ret, AdapterLog("FDA", search_query, a), a.exc)
  IN Got(fetch_fda_recalls_with_search(search_query, o1, o2))

\* the adapter called directly, around the cache
DirectFda(c, search_query, o1, o2) ==
  LET Got(a) == Fetched(c, a.ret, AdapterLog("FDA", search_query, a), a.exc)
  IN Got(fetch_fda_recalls_with_search(search_query, o1, o2))

DirectCpsc(c, search_query, o1, o2) ==
  LET Got(a) == Fetched(c, a.ret, AdapterLog("CPSC", search_query, a), a.exc)
  IN Got(fetch_cpsc_recalls_with_search(search_query, o1, o2))

fetch_fda_recalls(c, t, o1) ==
  LET cached_data == get_cached_data(c, t, "fda_recalls")
      got         == <<Ev("get", "fda_recalls", FALSE, cached_data)>>
      Fresh(a) ==
        IF a.exc # ""
        THEN \* except Exception: return []
             Fetched(c, <<>>, got \o AdapterLog("FDA", <<>>, a), "")
        ELSE Fetched(set_cache_data(c, t, "fda_recalls", a.ret), a.ret,
                     got \o AdapterLog("FDA", <<>>, a)
                         \o <<Ev("put", "fda_recalls", FALSE, <<a.ret>>)>>, "")
  IN IF IsTruthyList(cached_data) THEN Fetched(c, cached_data[1], got, "")
     ELSE Fresh(fetch_fda_recalls_with_search(<<>>, o1, o1))

fetch_cpsc_recalls(c, t, o1) ==
  LET cached_data == get_cached_data(c, t, "cpsc_recalls")
      got         == <<Ev("get", "cpsc_recalls", FALSE, cached_data)>>
      Fresh(a) ==
        IF a.exc # ""
        THEN \* except Exception: cache and return empty_data
             Fetched(set_cache_data(c, t, "cpsc_recalls", <<>>), <<>>,
                     got \o AdapterLog("CPSC", <<>>, a)
                         \o <<Ev("put", "cpsc_recalls", FALSE, <<<<>>>>)>>, "")
        ELSE Fetched(set_cache_data(c, t, "cpsc_recalls", a.ret), a.ret,
                     got \o AdapterLog("CPSC", <<>>, a)
                         \o <<Ev("put", "cpsc_recalls", FALSE, <<a.ret>>)>>, "")
  IN IF IsTruthyList(cached_data) THEN Fetched(c, cached_data[1], got, "")
     ELSE Fresh(fetch_cpsc_recalls_with_search(<<>>, o1, o1))

(***************************************************************************)
(* Request handlers.  A handler yields [cache, resp, log]: the cache it    *)
(* leaves, the JSON reply and the events it caused.                        *)
(***************************************************************************)
IsSpace(c) == c \in {" ", "\t", "\n"}

\* str.strip()
RECURSIVE Strip(_)
Strip(s) ==
  IF s = <<>> THEN s
  ELSE IF IsSpace(Head(s)) THEN Strip(Tail(s))
  ELSE IF IsSpace(s[Len(s)]) THEN Strip(SubSeq(s, 1, Len(s) - 1))
  ELSE s

Args(search, classification, source, limit) ==
  [search |-> search, classification |-> classification,
   source |-> source, limit |-> limit]

NoArgs == Args(<<>>, <<>>, <<>>, 0)

Reply(op, code, args, data, count, fda_count, cpsc_count, flags) ==
  [op |-> op, code |-> code, success |-> (code = 200), args |-> args,
   data |-> data, count |-> count, fda_count |-> fda_count,
   cpsc_count |-> cpsc_count, flags |-> flags]

\* {'success': False, 'error': ...}, code
ErrorReply(op, code, args) == Reply(op, code, args, <<>>, 0, 0, 0, {})

Handled(c, resp, log) == [cache |-> c, resp |-> resp, log |-> log]

\* a scope test that lets every source in
InScopeAlways(source, name) == TRUE

\* "not source or source.lower() == 'fda'"
InScope(source, name) == source = <<>> \/ Lower(source) = name

\* a source that is not in scope contributes nothing and calls nothing
Skipped(c) == Fetched(c, <<>>, <<>>, "")

\* the classification filter; .lower() on a null classification raises
FilterClassification(recalls, classification) ==
  IF classification = <<>> THEN Return(recalls, <<>>)
  ELSE IF \E i \in 1..Len(recalls) : recalls[i].classification = Null
  THEN Raise("AttributeError", <<>>)
  ELSE Return(SelectSeq(recalls,
                LAMBDA r : Lower(r.classification) = Lower(classification)),
              <<>>)

\* the source filter ("redundant with the above logic but kept for safety")
FilterSource(recalls, source) ==
  IF source = <<>> THEN recalls
  ELSE SelectSeq(recalls, LAMBDA r : Lower(r.source) = Lower(source))

\* /api/recalls; of1, of2 answer the FDA requests, oc1, oc2 the CPSC ones
get_recalls(c, t, args, of1, of2, oc1, oc2) ==
  LET search == Strip(args.search)
      source == args.source
      Jsonify(F, C, byClass, filtered_recalls) ==
        IF F.exc # "" \/ C.exc # "" \/ byClass.exc # ""
        THEN \* except Exception: 'Internal server error', 500
             Handled(C.cache, ErrorReply("recalls", 500, args), F.log \o C.log)
        ELSE Handled(C.cache,
                     Reply("recalls", 200, args, filtered_recalls,
                           Len(filtered_recalls), Len(F.ret), Len(C.ret), {}),
                     F.log \o C.log)
      BySource(F, C, byClass) ==
        Jsonify(F, C, byClass, FilterSource(byClass.ret, source))
      ByClassification(F, C) ==
        BySource(F, C, FilterClassification(F.ret \o C.ret, args.classification))
      ThenCpsc(F) ==
        ByClassification(F,
          IF F.exc # "" \/ ~InScope(source, Lower(CPSC)) THEN Skipped(F.cache)
          ELSE IF search # <<>> THEN DirectCpsc(F.cache, search, oc1, oc2)
          ELSE fetch_cpsc_recalls(F.cache, t, oc1))
  IN ThenCpsc(IF ~InScope(source, Lower(FDA)) THEN Skipped(c)
              ELSE IF search # <<>> THEN DirectFda(c, search, of1, of2)
              ELSE fetch_fda_recalls(c, t, of1))

\* /api/search
search_recalls(c, args, of1, of2, oc1, oc2) ==
  LET query  == Strip(args.search)
      source == args.source
      Jsonify(F, C) ==
        IF F.exc # "" \/ C.exc # ""
        THEN Handled(C.cache, ErrorReply("search", 500, args), F.log \o C.log)
        ELSE Handled(C.cache,
                     Reply("search", 200, args, F.ret \o C.ret,
                           Len(F.ret \o C.ret), Len(F.ret), Len(C.ret), {}),
                     F.log \o C.log)
      ThenCpsc(F) ==
        Jsonify(F,
          IF F.exc # "" \/ ~InScope(source, Lower(CPSC)) THEN Skipped(F.cache)
          ELSE DirectCpsc(F.cache, query, oc1, oc2))
  IN IF query = <<>>
     THEN \* 'Search query is required', 400
          Handled(c, ErrorReply("search", 400, args), <<>>)
     ELSE ThenCpsc(IF ~InScope(source, Lower(FDA)) THEN Skipped(c)
                   ELSE DirectFda(c, query, of1, of2))

\* the classification histogram: falsy values and 'N/A' are not counted
ClassificationCounts(all_recalls) ==
  LET counted(v) == IsTruthy(v) /\ v # NA
      vals == {all_recalls[i].classification : i \in 1..Len(all_recalls)}
  IN [v \in {w \in vals : counted(w)} |->
        Cardinality({i \in 1..Len(all_recalls) : all_recalls[i].classification = v})]

\* the calendar: date.toordinal(), days counted from 0001-01-01 as day 1
DaysBeforeYear(y) ==
  365 * (y - 1) + ((y - 1) \div 4) - ((y - 1) \div 100) + ((y - 1) \div 400)

RECURSIVE DaysBeforeMonth(_, _)
DaysBeforeMonth(y, m) ==
  IF m = 1 THEN 0 ELSE DaysBeforeMonth(y, m - 1) + DaysIn(y, m - 1)

Ordinal(y, m, d) == DaysBeforeYear(y) + DaysBeforeMonth(y, m) + d

SecondsPerDay == 86400

\* datetime.now() at clock reading t (seconds since 1970-01-01 00:00:00):
\* the day and the time of day
Now(t) == [day |-> Ordinal(1970, 1, 1) + (t \div SecondsPerDay),
           secs |-> t % SecondsPerDay]

\* the day of the month that the directive %d reads at the two characters
\* s[7], s[8]: two digits, or a space and a digit from 1 on (-1 otherwise)
StrptimeDay(s) ==
  IF s[7] = " " /\ IsDigit(s[8]) THEN (IF DigitVal(s[8]) >= 1 THEN DigitVal(s[8]) ELSE -1)
  ELSE Num2(s, 7)

\* datetime.strptime(s, '%Y%m%d') of an 8-character string raises ValueError
\* unless s is four digits of a year from 1 on, two of a month and a day
StrptimeRaises(s) ==
  ~ /\ \A i \in 1..6 : IsDigit(s[i])
    /\ 100 * Num2(s, 1) + Num2(s, 3) >= 1
    /\ Num2(s, 5) >= 1 /\ Num2(s, 5) <= 12
    /\ StrptimeDay(s) >= 1
    /\ StrptimeDay(s) <= DaysIn(100 * Num2(s, 1) + Num2(s, 3), Num2(s, 5))

\* the day of the datetime strptime returns (its time of day is 00:00:00)
Strptime(s) == Ordinal(100 * Num2(s, 1) + Num2(s, 3), Num2(s, 5), StrptimeDay(s))

RecentDays == 30

\* "Count recent recalls": whether the loop body counts this record
IsRecent(recall, t) ==
  LET recall_date_str == recall.date
      \* thirty_days_ago = current_date - timedelta(days=30)
      thirty_days_ago == [day |-> Now(t).day - RecentDays, secs |-> Now(t).secs]
  IN /\ IsTruthy(recall_date_str) /\ recall_date_str # NA
     /\ Len(recall_date_str) = 8
     /\ ~StrptimeRaises(recall_date_str)
     \* date >= thirty_days_ago, date being a midnight
     /\ \/ Strptime(recall_date_str) > thirty_days_ago.day
        \/ /\ Strptime(recall_date_str) = thirty_days_ago.day
           /\ thirty_days_ago.secs = 0

ReasonPrefix == 50

Ellipsis == <<".", ".", ".">>

\* reason[:50] + '...' if len(reason) > 50 else reason
ReasonShort(reason) ==
  IF Len(reason) > ReasonPrefix
  THEN SubSeq(reason, 1, ReasonPrefix) \o Ellipsis ELSE reason

\* reason_counts after the loop, as the sequence of its items in insertion
\* order: one [reason, count] per key, at the place the key was first seen
RECURSIVE ReasonCounts(_, _)
ReasonCounts(all_recalls, items) ==
  IF all_recalls = <<>> THEN items
  ELSE LET reason == Head(all_recalls).reason_for_recall
           key    == ReasonShort(reason)
       IN IF ~(IsTruthy(reason) /\ reason # NA)
          THEN ReasonCounts(Tail(all_recalls), items)
          ELSE IF \E i \in 1..Len(items) : items[i].reason = key
          THEN ReasonCounts(Tail(all_recalls),
                 [i \in 1..Len(items) |->
                    IF items[i].reason = key
                    THEN [items[i] EXCEPT !.count = @ + 1] ELSE items[i]])
          ELSE ReasonCounts(Tail(all_recalls),
                 Append(items, [reason |-> key, count |-> 1]))

\* sorted(items, key=count, reverse=True): a stable sort, so items of equal
\* count keep their order; item goes behind every item that is not smaller
InsertByCount(sorted, item) ==
  LET n == Cardinality({i \in 1..Len(sorted) : sorted[i].count >= item.count})
  IN SubSeq(sorted, 1, n) \o <<item>> \o SubSeq(sorted, n + 1, Len(sorted))

RECURSIVE SortedByCount(_, _)
SortedByCount(items, sorted) ==
  IF items = <<>> THEN sorted
  ELSE SortedByCount(Tail(items), InsertByCount(sorted, Head(items)))

TopReasonsLimit == 5

\* sorted(...)[:5]
TopReasons(all_recalls) ==
  LET First5(sorted) ==
        SubSeq(sorted, 1, IF Len(sorted) < TopReasonsLimit
                          THEN Len(sorted) ELSE TopReasonsLimit)
  IN First5(SortedByCount(ReasonCounts(all_recalls, <<>>), <<>>))

\* generate_stats at clock reading t
generate_stats(fda_recalls, cpsc_recalls, t) ==
  LET all_recalls == fda_recalls \o cpsc_recalls IN
  IF all_recalls = <<>>
  THEN [ total_recalls   |-> 0,
         fda_recalls     |-> 0,
         cpsc_recalls    |-> 0,
         recent_recalls  |-> 0,
         classifications |-> ClassificationCounts(<<>>),
         top_reasons     |-> <<>> ]
  ELSE [ total_recalls   |-> Len(all_recalls),
         fda_recalls     |-> Len(fda_recalls),
         cpsc_recalls    |-> Len(cpsc_recalls),
         recent_recalls  |->
           Cardinality({i \in 1..Len(all_recalls) : IsRecent(all_recalls[i], t)}),
         classifications |-> ClassificationCounts(all_recalls),
         top_reasons     |-> TopReasons(all_recalls) ]

\* /api/stats
get_stats(c, t, of1, oc1) ==
  LET cached_stats == get_cached_data(c, t, "stats")
      got   == <<Ev("get", "stats", FALSE, cached_stats)>>
      Jsonify(F, C, stats) ==
        Handled(set_cache_data(C.cache, t, "stats", stats),
                Reply("stats", 200, NoArgs, <<stats>>, 0, 0, 0, {}),
                got \o F.log \o C.log
                    \o <<Ev("put", "stats", FALSE, <<stats>>)>>)
      Generate(F, C) == Jsonify(F, C, generate_stats(F.ret, C.ret, t))
      ThenCpsc(F) == Generate(F, fetch_cpsc_recalls(F.cache, t, oc1))
  IN IF cached_stats # None
     THEN Handled(c, Reply("stats", 200, NoArgs, cached_stats, 0, 0, 0, {"cached"}),
                  got)
     ELSE ThenCpsc(fetch_fda_recalls(c, t, of1))

\* /api/test: one request to each upstream, and the cache-validity flags
test_api(c, t, of1, oc1) ==
  LET fda_status  == of1.kind = "response" /\ of1.status = 200
      cpsc_status == oc1.kind = "response" /\ oc1.status = 200
      flags == (IF fda_status THEN {"fda_api"} ELSE {})
               \cup (IF cpsc_status THEN {"cpsc_api"} ELSE {})
               \cup {k \in Keys : is_cache_valid(c, t, k)}
  IN IF of1.kind # "response"
     THEN \* the FDA request raised: except Exception, 500
          Handled(c, ErrorReply("test", 500, NoArgs),
                  <<Ev("http", "FDA", FALSE, None)>>)
     ELSE Handled(c, Reply("test", 200, NoArgs, <<>>, 0, 0, 0, flags),
                  <<Ev("http", "FDA", FALSE, None),
                    Ev("http", "CPSC", FALSE, None)>>)

\* /api/update, the reply: the counts of the two fetched sequences
update_reply(fda_recalls, cpsc_recalls) ==
  Reply("update", 200, NoArgs, <<>>, 0, Len(fda_recalls), Len(cpsc_recalls), {})

(***************************************************************************)
(* Inputs: upstream records, bodies and outcomes, request parameters       *)
(***************************************************************************)
MaxBatch == 2

MaxTicks == 2

\* all sequences over S of length at most n
SeqsUpTo(S, n) == UNION {[1..k -> S] : k \in 0..n}

Milk == <<"M","i","l","k">>
Soy  == <<"S","o","y">>
Nuts == <<"N","u","t","s">>
Acme == <<"A","c","m","e">>
Toy  == <<"T","o","y">>
Fire == <<"F","i","r","e">>
ClassI == <<"C","l","a","s","s"," ","I">>

\* an FDA enforcement record with a recall number and a classification
FdaMilk ==
  Dict([recall_number |-> <<"F","1">>, product_description |-> Milk,
        reason_for_recall |-> Nuts, recalling_firm |-> Acme,
        classification |-> ClassI])

\* one without a recall number, whose classification is null
FdaSoy == Dict([product_description |-> Soy, classification |-> Null])

\* one whose product description is null
FdaNullText ==
  Dict([recall_number |-> <<"F","3">>, product_description |-> Null,
        reason_for_recall |-> Milk])

CpscMilk ==
  Dict([RecallNumber |-> <<"C","1">>, ProductNames |-> Milk, Hazards |-> Fire])

CpscToy ==
  Dict([Title |-> Toy, Manufacturers |-> Null,
        RecallDate |-> <<"2","0","2","4","-","0","3","-","0","5","T",
                         "0","0",":","0","0",":","0","0">>])

\* one whose recall number and date are null
CpscNulls == Dict([RecallNumber |-> Null, RecallDate |-> Null, Title |-> Toy])

\* the query of the search requests, before strip(); it occurs in "Milk"
\* only when letter case is ignored
QueryIL == <<" ","i","L">>

Failures == {Timeout, ConnError, Response(500, NoBody), Response(200, NoBody)}

FdaOk(S) == {Response(200, DictBody(b)) : b \in SeqsUpTo(S, MaxBatch)}

CpscOk(S) == {Response(200, ListBody(b)) : b \in SeqsUpTo(S, MaxBatch)}

\* every shape of upstream answer, for the adapters alone
FdaOutcomes ==
  Failures
  \cup {Response(404, DictBody(<<FdaMilk>>)), Response(202, DictBody(<<FdaMilk>>)),
        Response(200, DictNoResults), Response(200, DictNullResults),
        Response(200, ListBody(<<FdaMilk>>))}
  \cup FdaOk({FdaMilk, FdaSoy, FdaNullText, NotADict})

CpscOutcomes ==
  Failures
  \cup {Response(404, ListBody(<<CpscMilk>>)), Response(200, DictNoResults)}
  \cup CpscOk({CpscMilk, CpscToy, CpscNulls, NotADict})

\* the outcome of a second request is drawn only when one is issued
Second(S, o1, issued) == IF issued THEN S ELSE {o1}

(***************************************************************************)
(* State                                                                   *)
(***************************************************************************)
VARIABLES
  cache,    \* the module-level cache dict
  now,      \* time.time()
  pc,       \* "idle"; "cleared", "fda_done": inside update_data; "reply"
  upd,      \* update_data's local fda_recalls
  resp,     \* the reply being returned
  log,      \* the events of the handler in progress or just finished
  stored,   \* per key, what the last put stored and when (None after clear)
  call,     \* an adapter call on its own: its inputs and its result
  batch,    \* generate_stats on its own: its two record lists and its result
  threads   \* requests running concurrently: per thread, its operation,
            \* its position in it and its local variables

vars == <<cache, now, pc, upd, resp, log, stored, call, batch, threads>>

StartTime == 2 * CACHE_DURATION

Quantum == CACHE_DURATION \div 2

NoReply == ErrorReply("none", 0, NoArgs)

NoCall == [src |-> "none", query |-> <<>>, o1 |-> Timeout, o2 |-> Timeout,
           done |-> FALSE, result |-> Return(<<>>, <<>>)]

NoBatch == [fda_recalls |-> <<>>, cpsc_recalls |-> <<>>, stats |-> None]

NoThreads == <<>>

\* stored after the events of log, which happened at time t
RECURSIVE ApplyLog(_, _, _)
ApplyLog(st, events, t) ==
  IF events = <<>> THEN st
  ELSE LET ev == Head(events)
           st1 == IF ev.e = "clear" THEN [k \in Keys |-> None]
                  ELSE IF ev.e = "put"
                  THEN [st EXCEPT ![ev.k] = <<[v |-> ev.d[1], at |-> t]>>]
                  ELSE st
       IN ApplyLog(st1, Tail(events), t)

Init ==
  /\ cache = InitialCache
  /\ now = StartTime
  /\ pc = "idle"
  /\ upd = <<>>
  /\ resp = NoReply
  /\ log = <<>>
  /\ stored = [k \in Keys |-> None]
  /\ call = NoCall
  /\ batch = NoBatch
  /\ threads = NoThreads

\* a whole handler h runs and its reply is on its way
Handle(h) ==
  /\ pc = "idle"
  /\ cache' = h.cache
  /\ resp' = h.resp
  /\ log' = h.log
  /\ stored' = ApplyLog(stored, h.log, now)
  /\ pc' = "reply"
  /\ UNCHANGED <<now, upd, call, batch, threads>>

GetRecalls(args, of1, of2, oc1, oc2) ==
  Handle(get_recalls(cache, now, args, of1, of2, oc1, oc2))

SearchRecalls(args, of1, of2, oc1, oc2) ==
  Handle(search_recalls(cache, args, of1, of2, oc1, oc2))

GetStats(of1, oc1) == Handle(get_stats(cache, now, of1, oc1))

TestApi(of1, oc1) == Handle(test_api(cache, now, of1, oc1))

\* update_data: cache.clear()
UpdateClear ==
  /\ pc = "idle"
  /\ cache' = cache_clear(cache)
  /\ log' = <<Ev("clear", "", FALSE, <<{k \in Keys : is_cache_valid(cache, now, k)}>>)>>
  /\ stored' = ApplyLog(stored, log', now)
  /\ pc' = "cleared"
  /\ UNCHANGED <<now, upd, resp, call, batch, threads>>

\* update_data: fda_recalls = fetch_fda_recalls()
UpdateFetchFda(of1) ==
  /\ pc = "cleared"
  /\ LET Assign(F) ==
           /\ cache' = F.cache
           /\ upd' = F.ret
           /\ log' = log \o F.log
           /\ stored' = ApplyLog(stored, F.log, now)
     IN Assign(fetch_fda_recalls(cache, now, of1))
  /\ pc' = "fda_done"
  /\ UNCHANGED <<now, resp, call, batch, threads>>

\* update_data: cpsc_recalls = fetch_cpsc_recalls(), and the reply
UpdateFetchCpsc(oc1) ==
  /\ pc = "fda_done"
  /\ LET Assign(C) ==
           /\ cache' = C.cache
           /\ resp' = update_reply(upd, C.ret)
           /\ log' = log \o C.log
           /\ stored' = ApplyLog(stored, C.log, now)
     IN Assign(fetch_cpsc_recalls(cache, now, oc1))
  /\ pc' = "reply"
  /\ upd' = <<>>
  /\ UNCHANGED <<now, call, batch, threads>>

\* the reply reaches the client
Deliver ==
  /\ pc = "reply"
  /\ pc' = "idle"
  /\ resp' = NoReply
  /\ log' = <<>>
  /\ UNCHANGED <<cache, now, upd, stored, call, batch, threads>>

\* time passes
Tick ==
  /\ pc # "reply"
  /\ now < StartTime + MaxTicks * Quantum
  /\ now' = now + Quantum
  /\ UNCHANGED <<cache, pc, upd, resp, log, stored, call, batch, threads>>

(***************************************************************************)
(* Spec: the cache over time.  Requests without a query, statistics, the   *)
(* probe and force refresh, with time passing; search requests with one    *)
(* query.  A failed fallback answers like the first request.               *)
(***************************************************************************)
FdaServed == {Timeout, Response(500, NoBody)} \cup FdaOk({FdaMilk})

CpscServed == {Timeout} \cup CpscOk({CpscMilk})

\* the answers to the requests that carry a query
FdaSearched == {Timeout, Response(200, DictBody(<<FdaMilk>>))}

CpscSearched == {Timeout, Response(200, ListBody(<<CpscMilk>>))}

SourcesServed == {<<>>, <<"F","D","A">>, <<"c","p","s","c">>}

\* request parameters: no search term, the search term, either
ArgsListed == {Args(<<>>, <<>>, source, 0) : source \in SourcesServed}

ArgsSearched == {Args(QueryIL, <<>>, source, 0) : source \in SourcesServed}

ArgsQueried == ArgsListed \cup ArgsSearched

\* the answers to the probe's two requests
FdaProbed == {Timeout, Response(200, NoBody)}

CpscProbed == {Timeout, Response(200, NoBody)}

Next ==
  \/ \E args \in ArgsListed, of1 \in FdaServed, oc1 \in CpscServed :
       GetRecalls(args, of1, of1, oc1, oc1)
  \/ \E args \in ArgsSearched, of1 \in FdaSearched, oc1 \in CpscSearched :
       GetRecalls(args, of1, of1, oc1, oc1)
  \/ \E args \in ArgsQueried, of1 \in FdaSearched, oc1 \in CpscSearched :
       SearchRecalls(args, of1, of1, oc1, oc1)
  \/ \E of1 \in FdaServed, oc1 \in CpscServed : GetStats(of1, oc1)
  \/ \E of1 \in FdaProbed, oc1 \in CpscProbed : TestApi(of1, oc1)
  \/ UpdateClear
  \/ \E of1 \in FdaServed : UpdateFetchFda(of1)
  \/ \E oc1 \in CpscServed : UpdateFetchCpsc(oc1)
  \/ Deliver
  \/ Tick

Spec == Init /\ [][Next]_vars

(***************************************************************************)
(* SpecAgg: the aggregator.  List and keyword-search requests with every   *)
(* combination of search, classification, source and limit, over upstream  *)
(* batches of different records, at one instant.                           *)
(***************************************************************************)
FdaAgg == {Response(500, NoBody)} \cup FdaOk({FdaMilk, FdaSoy})

CpscAgg == {Timeout} \cup CpscOk({CpscMilk})

SearchesAgg == {<<>>, QueryIL}

ClassificationsAgg ==
  {<<>>, <<"c","l","a","s","s"," ","i">>,
   <<"C","O","N","S","U","M","E","R"," ","P","r","o","d","u","c","t">>}

SourcesAgg == {<<>>, <<"F","D","A">>, <<"C","p","s","c">>, <<"x">>}

LimitsAgg == {0, 1}

ArgsAgg ==
  {Args(s, c, src, l) : s \in SearchesAgg, c \in ClassificationsAgg,
                        src \in SourcesAgg, l \in LimitsAgg}

\* the first outcome is drawn only for a source in scope
First(S, source, name) == IF InScope(source, name) THEN S ELSE {Timeout}

FdaIssuesSecond(search_query, o1) ==
  Len(fetch_fda_recalls_with_search(search_query, o1, o1).http) = 2

CpscIssuesSecond(search_query, o1) ==
  Len(fetch_cpsc_recalls_with_search(search_query, o1, o1).http) = 2

NextAgg ==
  \/ \E args \in ArgsAgg :
       \E of1 \in First(FdaAgg, args.source, Lower(FDA)),
          oc1 \in First(CpscAgg, args.source, Lower(CPSC)) :
         \E of2 \in Second(FdaAgg, of1, FdaIssuesSecond(Strip(args.search), of1)),
            oc2 \in Second(CpscAgg, oc1, CpscIssuesSecond(Strip(args.search), oc1)) :
           GetRecalls(args, of1, of2, oc1, oc2)
  \/ \E args \in {a \in ArgsAgg : a.classification = <<>>} :
       \E of1 \in First(FdaAgg, args.source, Lower(FDA)),
          oc1 \in First(CpscAgg, args.source, Lower(CPSC)) :
         \E of2 \in Second(FdaAgg, of1, FdaIssuesSecond(Strip(args.search), of1)),
            oc2 \in Second(CpscAgg, oc1, CpscIssuesSecond(Strip(args.search), oc1)) :
           SearchRecalls(args, of1, of2, oc1, oc2)
  \/ Deliver

SpecAgg == Init /\ [][NextAgg]_vars

(***************************************************************************)
(* SpecAdapter: one adapter call on its own, for every query and every     *)
(* pair of upstream outcomes.                                              *)
(***************************************************************************)
QueriesAdapter == {<<>>, Strip(QueryIL)}

CallOf(src, query, o1, o2) ==
  [src |-> src, query |-> query, o1 |-> o1, o2 |-> o2,
   done |-> FALSE, result |-> Return(<<>>, <<>>)]

InitAdapter ==
  /\ cache = InitialCache
  /\ now = StartTime
  /\ pc = "idle"
  /\ upd = <<>>
  /\ resp = NoReply
  /\ log = <<>>
  /\ stored = [k \in Keys |-> None]
  /\ call \in {CallOf("FDA", q, o1, o2) :
                 q \in QueriesAdapter, o1 \in FdaOutcomes, o2 \in FdaOutcomes}
         \cup {CallOf("CPSC", q, o1, o2) :
                 q \in QueriesAdapter, o1 \in CpscOutcomes, o2 \in CpscOutcomes}
  /\ batch = NoBatch
  /\ threads = NoThreads

AdapterCall ==
  /\ ~call.done
  /\ call' = [call EXCEPT
       !.done = TRUE,
       !.result = IF call.src = "FDA"
                  THEN fetch_fda_recalls_with_search(call.query, call.o1, call.o2)
                  ELSE fetch_cpsc_recalls_with_search(call.query, call.o1, call.o2)]
  /\ UNCHANGED <<cache, now, pc, upd, resp, log, stored, batch, threads>>

NextAdapter == AdapterCall

SpecAdapter == InitAdapter /\ [][NextAdapter]_vars

(***************************************************************************)
(* SpecStats: generate_stats on its own.  A batch is put together record   *)
(* by record, FDA records with a reason or CPSC records with a date, and   *)
(* then summarized at the current time.                                    *)
(***************************************************************************)
MaxReasons == 7

MaxDated == 2

\* reasons of 60 characters that differ after the 55th, and one of exactly 50
Reason60X == [i \in 1..60 |-> IF i <= 55 THEN "s" ELSE "x"]

Reason60Y == [i \in 1..60 |-> IF i <= 55 THEN "s" ELSE "y"]

Reason50 == [i \in 1..50 |-> "s"]

\* the reasons, in the order in which a batch first uses them
ReasonPool == <<Nuts, Reason60X, Fire, Reason60Y, Soy, Reason50, Milk>>

\* 1970-03-01 at 00:00:00 and at 12:00:00
StatsTimes == {59 * SecondsPerDay, 59 * SecondsPerDay + (SecondsPerDay \div 2)}

\* today, 30 and 31 days before, tomorrow, a day no month has, 7 characters,
\* a day written with a space, the default and null
DatePool ==
  { <<"1","9","7","0","0","3","0","1">>, <<"1","9","7","0","0","1","3","0">>,
    <<"1","9","7","0","0","1","2","9">>, <<"1","9","7","0","0","3","0","2">>,
    <<"1","9","7","0","0","2","3","0">>, <<"1","9","7","0","0","3","1">>,
    <<"1","9","7","0","0","3"," ","1">>, NA, Null }

\* the FDA record of a raw record with this reason, the n-th of its batch
Reasoned(reason, n) == FdaProcessOne(Dict([reason_for_recall |-> reason]), n)

\* the CPSC record of a raw record with this date, the n-th of its batch
Dated(date, n) == CpscNormalizeOne(Dict([RecallDate |-> date]), n)

\* the reasons of the pool that the batch holds
UsedReasons(recalls) ==
  {i \in 1..Len(ReasonPool) :
     \E j \in 1..Len(recalls) : recalls[j].reason_for_recall = ReasonPool[i]}

InitStats ==
  /\ cache = InitialCache
  /\ now \in StatsTimes
  /\ pc = "idle"
  /\ upd = <<>>
  /\ resp = NoReply
  /\ log = <<>>
  /\ stored = [k \in Keys |-> None]
  /\ call = NoCall
  /\ batch = NoBatch
  /\ threads = NoThreads

\* one more FDA record: without a reason ('N/A'), with a reason the batch
\* already holds, or with the next reason of the pool
AddReason ==
  /\ batch.stats = None /\ batch.cpsc_recalls = <<>>
  /\ Len(batch.fda_recalls) < MaxReasons
  /\ \E reason \in {NA} \cup {ReasonPool[i] : i \in 1..Len(ReasonPool)} :
       /\ \/ reason = NA
          \/ \E i \in UsedReasons(batch.fda_recalls) : reason = ReasonPool[i]
          \/ /\ Cardinality(UsedReasons(batch.fda_recalls)) < Len(ReasonPool)
             /\ reason = ReasonPool[Cardinality(UsedReasons(batch.fda_recalls)) + 1]
       /\ batch' = [batch EXCEPT !.fda_recalls =
                      Append(@, Reasoned(reason, Len(batch.fda_recalls)))]
  /\ UNCHANGED <<cache, now, pc, upd, resp, log, stored, call, threads>>

\* one more CPSC record, with a date
AddDated ==
  /\ batch.stats = None /\ batch.fda_recalls = <<>>
  /\ Len(batch.cpsc_recalls) < MaxDated
  /\ \E date \in DatePool :
       batch' = [batch EXCEPT !.cpsc_recalls =
                   Append(@, Dated(date, Len(batch.cpsc_recalls)))]
  /\ UNCHANGED <<cache, now, pc, upd, resp, log, stored, call, threads>>

Summarize ==
  /\ batch.stats = None
  /\ batch' = [batch EXCEPT !.stats =
                 <<generate_stats(batch.fda_recalls, batch.cpsc_recalls, now)>>]
  /\ UNCHANGED <<cache, now, pc, upd, resp, log, stored, call, threads>>

NextStats == AddReason \/ AddDated \/ Summarize

SpecStats == InitStats /\ [][NextStats]_vars

(***************************************************************************)
(* Properties                                                              *)
(***************************************************************************)
\* the events of l with kind e about key or source k
Events(l, e, k) == SelectSeq(l, LAMBDA ev : ev.e = e /\ ev.k = k)

CacheEvents(l) == SelectSeq(l, LAMBDA ev : ev.e \in {"get", "put", "clear"})

\* a handler has just run: the step from "idle" to the reply
HandlerStep(op) == pc = "idle" /\ pc' = "reply" /\ resp'.op = op

KeyOf(src) == IF src = "FDA" THEN "fda_recalls" ELSE "cpsc_recalls"

NameOf(src) == IF src = "FDA" THEN Lower(FDA) ELSE Lower(CPSC)

\* C1: for every key and every time, get returns the value of the most
\* recent put exactly when now - storedAt < 3600; at 3600 or more it is a
\* miss, and the stale entry is still stored, unchanged.
C1_GetWithinTTL ==
  \A k \in Keys :
    LET got == get_cached_data(cache, now, k) IN
    IF stored[k] = None THEN got = None
    ELSE LET put == stored[k][1] IN
         /\ (now - put.at < 3600 => got = <<put.v>>)
         /\ (now - put.at >= 3600 => got = None)
         /\ k \in DOMAIN cache
         /\ cache[k] = [data |-> <<put.v>>, timestamp |-> put.at]

\* the probe has just read one entry exactly 3600 s old (reported not
\* valid, still stored) and one younger entry (reported valid)
C1_Witness ==
  /\ pc = "reply" /\ resp.op = "test" /\ resp.success
  /\ \E k1, k2 \in Keys :
       /\ stored[k1] # None /\ now - stored[k1][1].at = 3600
       /\ k1 \notin resp.flags
       /\ cache[k1].data = <<stored[k1][1].v>>
       /\ stored[k2] # None /\ now - stored[k2][1].at < 3600
       /\ k2 \in resp.flags

\* C2: a no-query request for a source whose entry was stored less than
\* 3600 s ago issues no upstream request and returns the stored result,
\* whatever that result was (including an empty sequence).
C2_ReuseWithinTTL ==
  [][ \A src \in {"FDA", "CPSC"} :
        ( /\ HandlerStep("recalls")
          /\ Strip(resp'.args.search) = <<>>
          /\ InScope(resp'.args.source, NameOf(src))
          /\ stored[KeyOf(src)] # None
          /\ now - stored[KeyOf(src)][1].at < 3600 )
        => /\ Events(log', "http", src) = <<>>
           /\ Events(log', "get", KeyOf(src))[1].d = <<stored[KeyOf(src)][1].v>>
           /\ resp'.success
           /\ (IF src = "FDA" THEN resp'.fda_count ELSE resp'.cpsc_count)
                = Len(stored[KeyOf(src)][1].v)
    ]_vars

\* C3: a list request with a search term, and a keyword-search request,
\* call the adapter of each source in scope directly, once and with the
\* query, and neither read nor write the cache.
C3_SearchBypassesCache ==
  [][ ( (HandlerStep("recalls") \/ HandlerStep("search"))
        /\ Strip(resp'.args.search) # <<>> )
      => /\ cache' = cache
         /\ CacheEvents(log') = <<>>
         /\ \A src \in {"FDA", "CPSC"} :
              LET calls == Events(log', "adapter", src) IN
              IF InScope(resp'.args.source, NameOf(src))
              THEN Len(calls) = 1 /\ calls[1].q
              ELSE calls = <<>>
    ]_vars

\* a search request has been answered while all three entries were valid
C3_Witness ==
  /\ pc = "reply" /\ resp.op = "recalls" /\ Strip(resp.args.search) # <<>>
  /\ resp.args.source = <<>> /\ resp.success
  /\ \A k \in Keys : is_cache_valid(cache, now, k)
  /\ cache["fda_recalls"].data = <<<<>>>>
  /\ resp.fda_count > 0

\* C4: immediately after cache.clear() the get of every key is a miss, and
\* the get of a key stays a miss until the next put for that key.
C4_InvalidateAll ==
  [][ /\ (pc = "idle" /\ pc' = "cleared")
         => \A k \in Keys : get_cached_data(cache', now', k) = None
      /\ \A k \in Keys :
           (k \notin DOMAIN cache /\ Events(log', "put", k) = <<>>)
           => get_cached_data(cache', now', k) = None
    ]_vars

\* cache.clear() has just run on a cache whose three entries were valid
C4_Witness ==
  /\ pc = "cleared"
  /\ log = <<Ev("clear", "", FALSE, <<Keys>>)>>
  /\ \A k \in Keys : get_cached_data(cache, now, k) = None

\* the events of a fetch that found nothing cached: a miss, one adapter
\* call without a query issuing one request, and the put of what it returned
IsFreshFetch(l, src) ==
  /\ Len(l) = 4
  /\ l[1].e = "get" /\ l[1].k = KeyOf(src) /\ l[1].d = None
  /\ l[2].e = "adapter" /\ l[2].k = src /\ ~l[2].q
  /\ l[3].e = "http" /\ l[3].k = src /\ ~l[3].q
  /\ l[4].e = "put" /\ l[4].k = KeyOf(src) /\ l[4].d = l[2].d

\* C5: force refresh, from any cache state, clears the cache, fetches FDA
\* and CPSC afresh, stores both results and returns their lengths as counts.
C5_ForceRefresh ==
  (pc = "reply" /\ resp.op = "update")
  => /\ Len(log) = 9
     /\ log[1].e = "clear"
     /\ IsFreshFetch(SubSeq(log, 2, 5), "FDA")
     /\ IsFreshFetch(SubSeq(log, 6, 9), "CPSC")
     /\ resp.success
     /\ resp.fda_count = Len(log[3].d[1])
     /\ resp.cpsc_count = Len(log[7].d[1])
     /\ cache["fda_recalls"].data = log[3].d
     /\ cache["cpsc_recalls"].data = log[7].d

\* a force refresh that found all three entries valid has answered with the
\* counts of an upstream FDA that now fails and of two CPSC records
C5_Witness ==
  /\ pc = "reply" /\ resp.op = "update"
  /\ log[1].d = <<Keys>>
  /\ resp.fda_count = 0 /\ resp.cpsc_count = 2

\* the source a request is restricted to ("" when it is not restricted to
\* FDA or CPSC), and the other one
Restricted(source) ==
  IF Lower(source) = Lower(FDA) THEN "FDA"
  ELSE IF Lower(source) = Lower(CPSC) THEN "CPSC" ELSE ""

Other(src) == IF src = "FDA" THEN "CPSC" ELSE "FDA"

SourceText(src) == IF src = "FDA" THEN FDA ELSE CPSC

CountOf(r, src) == IF src = "FDA" THEN r.fda_count ELSE r.cpsc_count

\* C6: a list or keyword-search request restricted to one source returns
\* only records of that source, does not call the other source's adapter
\* (nor its upstream), and reports 0 as the other source's count.
C6_SourceScoping ==
  (pc = "reply" /\ resp.op \in {"recalls", "search"}
     /\ Restricted(resp.args.source) # "")
  => LET src == Restricted(resp.args.source) IN
     /\ \A i \in 1..Len(resp.data) : resp.data[i].source = SourceText(src)
     /\ Events(log, "adapter", Other(src)) = <<>>
     /\ Events(log, "http", Other(src)) = <<>>
     /\ Events(log, "get", KeyOf(Other(src))) = <<>>
     /\ resp.success => CountOf(resp, Other(src)) = 0

\* a search restricted to FDA (in upper case) has returned FDA records
\* while the cache held CPSC records
C6_Witness ==
  /\ pc = "reply" /\ resp.op = "recalls" /\ resp.success
  /\ resp.args.source = FDA /\ Strip(resp.args.search) # <<>>
  /\ Len(resp.data) > 0
  /\ IsTruthyList(get_cached_data(cache, now, "cpsc_recalls"))

\* the sequence a source contributed to the request whose events are l:
\* what its adapter returned, else what the cache get returned
SourceSeq(l, src) ==
  IF Events(l, "adapter", src) # <<>> THEN Events(l, "adapter", src)[1].d[1]
  ELSE IF Events(l, "get", KeyOf(src)) # <<>>
          /\ Events(l, "get", KeyOf(src))[1].d # None
  THEN Events(l, "get", KeyOf(src))[1].d[1]
  ELSE <<>>

\* the records whose classification equals c ignoring letter case
MatchingClassification(recalls, c) ==
  IF c = <<>> THEN recalls
  ELSE SelectSeq(recalls, LAMBDA r : Lower(r.classification) = Lower(c))

\* C7: every list request returns the FDA sequence followed by the CPSC
\* sequence, filtered by classification ignoring case; the per-source
\* counts are the lengths before that filter, count the length after it.
C7_AggregatorReference ==
  (pc = "reply" /\ resp.op = "recalls")
  => LET fda    == SourceSeq(log, "FDA")
         cpsc   == SourceSeq(log, "CPSC")
         expect == MatchingClassification(fda \o cpsc, resp.args.classification)
     IN /\ resp.success
        /\ resp.data = expect
        /\ resp.count = Len(expect)
        /\ resp.fda_count = Len(fda)
        /\ resp.cpsc_count = Len(cpsc)

\* C7, where no fetched record has a null classification or no
\* classification is asked for: the aggregator agrees with the reference
C7_ExceptNullClassification ==
  (pc = "reply" /\ resp.op = "recalls"
     /\ (resp.args.classification = <<>>
         \/ \A i \in 1..Len(SourceSeq(log, "FDA")) :
              SourceSeq(log, "FDA")[i].classification # Null))
  => LET fda    == SourceSeq(log, "FDA")
         cpsc   == SourceSeq(log, "CPSC")
         expect == MatchingClassification(fda \o cpsc, resp.args.classification)
     IN /\ resp.success
        /\ resp.data = expect
        /\ resp.count = Len(expect)
        /\ resp.fda_count = Len(fda)
        /\ resp.cpsc_count = Len(cpsc)

\* C8: a list request with a positive limit returns at most limit records,
\* the prefix of the merged, classification-filtered sequence.
C8_Limit ==
  (pc = "reply" /\ resp.op = "recalls" /\ resp.success /\ resp.args.limit > 0)
  => LET all == MatchingClassification(
                  SourceSeq(log, "FDA") \o SourceSeq(log, "CPSC"),
                  resp.args.classification)
     IN /\ Len(resp.data) <= resp.args.limit
        /\ resp.data = SubSeq(all, 1, Len(resp.data))

\* the outcome of the last request an adapter call issued
LastOutcome(cl) == IF Len(cl.result.http) = 2 THEN cl.o2 ELSE cl.o1

\* an upstream failure: timeout, connection error, 4xx/5xx status, a body
\* that is not JSON, or JSON of another shape than the adapter reads
IsFailure(src, o) ==
  \/ o.kind # "response"
  \/ RaisesForStatus(o.status)
  \/ ~o.body.json
  \/ (src = "FDA" /\ (o.body.shape # "dict" \/ o.body.results = "null"))
  \/ (src = "CPSC" /\ o.body.shape # "list")

\* C9: an adapter call, with or without a query and whatever each outbound
\* request meets, raises nothing and returns a sequence of records of its
\* source, empty when the request it relies on failed.
C9_AdaptersNeverRaise ==
  call.done
  => /\ call.result.exc = ""
     /\ Len(call.result.http) \in {1, 2}
     /\ \A i \in 1..Len(call.result.ret) :
          call.result.ret[i].source = SourceText(call.src)
     /\ IsFailure(call.src, LastOutcome(call)) => call.result.ret = <<>>

\* an FDA call whose body was a JSON list (.get on it raises
\* AttributeError inside the adapter) has returned the empty sequence
C9_Witness ==
  /\ call.done /\ call.src = "FDA"
  /\ FdaTry(call.query, call.o1, call.o2).exc = "AttributeError"
  /\ call.result = Return(<<>>, call.result.http)

\* the records an adapter builds from raw entries
Built(src, entries) ==
  IF src = "FDA" THEN FdaProcess(entries).ret ELSE normalize_cpsc_recalls(entries)

SearchableKeys(src) ==
  IF src = "FDA"
  THEN {"product_description", "reason_for_recall", "recalling_firm"}
  ELSE {CpscSearchKeys[i] : i \in 1..Len(CpscSearchKeys)}

\* some searchable field of the entry contains the query, ignoring case
FieldContains(src, entry, query) ==
  \E k \in SearchableKeys(src) :
    k \in DOMAIN entry.kv /\ Contains(Lower(entry.kv[k]), Lower(query))

\* an answer the local filter can work on: 200, the expected JSON shape,
\* every entry a dict whose searchable fields are strings
IsClean(src, o) ==
  /\ ~IsFailure(src, o) /\ o.status = 200
  /\ \A i \in 1..Len(o.body.items) :
       /\ o.body.items[i].isdict
       /\ \A k \in SearchableKeys(src) : Get(o.body.items[i], k, <<>>) # Null

\* the query fallback of adapter src, stated for one finished call
QueryFallback(src) ==
  (call.done /\ call.src = src /\ call.query # <<>>
     /\ call.o1.kind = "response" /\ call.o1.status # 200)
  => /\ call.result.http = <<TRUE, FALSE>>
     /\ IsClean(src, call.o2)
        => call.result.ret =
             Built(src, SelectSeq(call.o2.body.items,
                          LAMBDA e : FieldContains(src, e, call.query)))

\* C10: for each adapter, when the request carrying the query gets a
\* non-success status, exactly one further request is issued, without the
\* query, and the records returned are built from exactly the unfiltered
\* results whose searchable fields contain the query ignoring case; no call
\* issues more than two requests.
C10_QueryFallback ==
  /\ QueryFallback("FDA")
  /\ QueryFallback("CPSC")
  /\ call.done => Len(call.result.http) <= 2

\* C10 for the FDA adapter alone, with the bound on outbound requests for both
C10_FdaQueryFallback ==
  /\ QueryFallback("FDA")
  /\ call.done => Len(call.result.http) <= 2

\* an FDA call with a query refused with status 500 has fallen back and
\* returned one of the two unfiltered records, the one containing the query
C10_FdaWitness ==
  /\ call.done /\ call.src = "FDA" /\ call.query # <<>>
  /\ call.o1 = Response(500, NoBody)
  /\ IsClean("FDA", call.o2) /\ Len(call.o2.body.items) = 2
  /\ Len(call.result.ret) = 1

\* the indices of the keyed records among entries, in order
RECURSIVE DictIndices(_, _)
DictIndices(entries, i) ==
  IF i > Len(entries) THEN <<>>
  ELSE (IF entries[i].isdict THEN <<i>> ELSE <<>>) \o DictIndices(entries, i + 1)

\* the canonical records of the well-formed entries, in their original
\* order; a CPSC record's default number counts the entry's place in the batch
WellFormedRecords(src, entries) ==
  LET idx == DictIndices(entries, 1) IN
  [n \in 1..Len(idx) |->
     IF src = "FDA" THEN FdaProcessOne(entries[idx[n]], n - 1)
     ELSE CpscNormalizeOne(entries[idx[n]], idx[n] - 1)]

\* a call without a query whose request was answered 200 with a batch
FetchedBatch(src) ==
  /\ call.done /\ call.src = src /\ call.query = <<>>
  /\ ~IsFailure(src, call.o1) /\ call.o1.status = 200
  /\ call.o1.body.results \in {"list", "absent"}

MalformedSkipped(src) ==
  FetchedBatch(src)
  => call.result.ret = WellFormedRecords(src, call.o1.body.items)

\* C11: for both sources, when a successfully fetched batch mixes entries
\* that are not keyed records with well-formed entries, the output is
\* exactly the canonical records of the well-formed entries, in order.
C11_MalformedSkipped == MalformedSkipped("FDA") /\ MalformedSkipped("CPSC")

\* C11 for the CPSC adapter alone
C11_CpscMalformedSkipped == MalformedSkipped("CPSC")

\* a CPSC batch of one malformed entry followed by one keyed record has
\* given that one record
C11_CpscWitness ==
  /\ FetchedBatch("CPSC") /\ Len(call.o1.body.items) = 2
  /\ ~call.o1.body.items[1].isdict /\ call.o1.body.items[2].isdict
  /\ Len(call.result.ret) = 1

Fields ==
  {"id", "recall_number", "product_description", "reason_for_recall",
   "company", "date", "classification", "status", "distribution_pattern",
   "product_quantity", "source"}

\* all eleven fields present, none null, none empty, a known source
IsCanonical(r) ==
  /\ DOMAIN r = Fields
  /\ \A f \in Fields : r[f] # Null /\ r[f] # <<>>
  /\ r.source \in {FDA, CPSC}

Canonical(src) ==
  (call.done /\ call.src = src)
  => \A i \in 1..Len(call.result.ret) : IsCanonical(call.result.ret[i])

\* C12: every record an adapter produces from a keyed raw record has all
\* eleven fields present, none of them null and none of them empty, with
\* source FDA or CPSC.
C12_CanonicalForm == Canonical("FDA") /\ Canonical("CPSC")

\* C12 for the CPSC normalizer alone
C12_CpscCanonicalForm == Canonical("CPSC")

\* C12 for raw records none of whose values is null or empty
C12_WithoutNullValues ==
  (call.done /\ \A i \in 1..Len(call.o1.body.items) :
                  call.o1.body.items[i].isdict
                  => \A k \in DOMAIN call.o1.body.items[i].kv :
                       IsTruthy(call.o1.body.items[i].kv[k]))
  => (call.query = <<>>
      => \A i \in 1..Len(call.result.ret) : IsCanonical(call.result.ret[i]))


(***************************************************************************)
(* SpecConc: the cache functions run by concurrent request threads.  A     *)
(* step is one access to the shared dict: get_cached_data is the key test  *)
(* and the timestamp read of is_cache_valid and then the data read;        *)
(* set_cache_data is one store of a new entry; cache.clear() is one call.  *)
(* A subscript on a key that is gone raises KeyError.  log holds the       *)
(* stores, the clears and the finished gets in the order they happened.    *)
(***************************************************************************)
MaxOps == 2

Tids == {1, 2}

KeysConc == {"fda_recalls"}

DataConc == {<<>>, <<Reasoned(Milk, 0)>>}

\* a thread: its operation and key, its position, the clock reading of its
\* validity check, the entry it read its result from, its result or
\* exception, and the number of operations it may still start
Idle(left) == [op |-> "idle", key |-> "", pc |-> "idle", at |-> 0,
               entry |-> None, ret |-> None, exc |-> "", left |-> left]

InitConc ==
  /\ cache = InitialCache
  /\ now = StartTime
  /\ pc = "idle"
  /\ upd = <<>>
  /\ resp = NoReply
  /\ log = <<>>
  /\ stored = [k \in Keys |-> None]
  /\ call = NoCall
  /\ batch = NoBatch
  /\ threads = [tid \in Tids |-> Idle(MaxOps)]

\* a thread calls get_cached_data(cache_key)
GetCall(tid, cache_key) ==
  /\ threads[tid].pc \in {"idle", "done"} /\ threads[tid].left > 0
  /\ threads' = [threads EXCEPT ![tid] =
                   [op |-> "get", key |-> cache_key, pc |-> "in", at |-> 0,
                    entry |-> None, ret |-> None, exc |-> "", left |-> @.left - 1]]
  /\ UNCHANGED <<cache, now, pc, upd, resp, log, stored, call, batch>>

\* the end of a get: its result or its exception
GetDone(th, ret, exc) == [th EXCEPT !.pc = "done", !.ret = ret, !.exc = exc]

\* is_cache_valid: "if cache_key not in cache: return False"
GetIn(tid) ==
  /\ threads[tid].pc = "in"
  /\ IF threads[tid].key \notin DOMAIN cache
     THEN /\ threads' = [threads EXCEPT ![tid] = GetDone(@, None, "")]
          /\ log' = Append(log, Ev("get", threads[tid].key, FALSE, None))
     ELSE /\ threads' = [threads EXCEPT ![tid].pc = "timestamp"]
          /\ log' = log
  /\ UNCHANGED <<cache, now, pc, upd, resp, stored, call, batch>>

\* is_cache_valid: cache_age = time.time() - cache[cache_key]['timestamp']
\* and the comparison
GetTimestamp(tid) ==
  /\ threads[tid].pc = "timestamp"
  /\ IF threads[tid].key \notin DOMAIN cache
     THEN /\ threads' = [threads EXCEPT ![tid] = GetDone(@, None, "KeyError")]
          /\ log' = Append(log, Ev("get", threads[tid].key, FALSE, None))
     ELSE IF is_cache_valid(cache, now, threads[tid].key)
     THEN /\ threads' = [threads EXCEPT ![tid].pc = "data", ![tid].at = now]
          /\ log' = log
     ELSE /\ threads' = [threads EXCEPT ![tid] = GetDone([@ EXCEPT !.at = now], None, "")]
          /\ log' = Append(log, Ev("get", threads[tid].key, FALSE, None))
  /\ UNCHANGED <<cache, now, pc, upd, resp, stored, call, batch>>

\* get_cached_data: return cache[cache_key]['data']
GetData(tid) ==
  /\ threads[tid].pc = "data"
  /\ IF threads[tid].key \notin DOMAIN cache
     THEN /\ threads' = [threads EXCEPT ![tid] = GetDone(@, None, "KeyError")]
          /\ log' = Append(log, Ev("get", threads[tid].key, FALSE, None))
     ELSE /\ threads' = [threads EXCEPT ![tid] =
                           GetDone([@ EXCEPT !.entry = <<cache[threads[tid].key]>>],
                                   cache[threads[tid].key].data, "")]
          /\ log' = Append(log, Ev("get", threads[tid].key, FALSE,
                                   cache[threads[tid].key].data))
  /\ UNCHANGED <<cache, now, pc, upd, resp, stored, call, batch>>

\* a thread runs set_cache_data(cache_key, data): the new entry is built
\* with the current time and stored
Put(tid, cache_key, data) ==
  /\ threads[tid].pc \in {"idle", "done"} /\ threads[tid].left > 0
  /\ cache' = set_cache_data(cache, now, cache_key, data)
  /\ log' = Append(log, Ev("put", cache_key, FALSE,
                           <<[data |-> <<data>>, timestamp |-> now]>>))
  /\ stored' = ApplyLog(stored, <<Ev("put", cache_key, FALSE, <<data>>)>>, now)
  /\ threads' = [threads EXCEPT ![tid] =
                   [op |-> "put", key |-> cache_key, pc |-> "done", at |-> now,
                    entry |-> None, ret |-> None, exc |-> "", left |-> @.left - 1]]
  /\ UNCHANGED <<now, pc, upd, resp, call, batch>>

\* a thread runs the cache.clear() of update_data
Clear(tid) ==
  /\ threads[tid].pc \in {"idle", "done"} /\ threads[tid].left > 0
  /\ cache' = cache_clear(cache)
  /\ log' = Append(log, Ev("clear", "", FALSE, None))
  /\ stored' = ApplyLog(stored, <<Ev("clear", "", FALSE, None)>>, now)
  /\ threads' = [threads EXCEPT ![tid] =
                   [op |-> "clear", key |-> "", pc |-> "done", at |-> now,
                    entry |-> None, ret |-> None, exc |-> "", left |-> @.left - 1]]
  /\ UNCHANGED <<now, pc, upd, resp, call, batch>>

\* time passes, also while operations are under way
TickConc ==
  /\ now < StartTime + MaxTicks * Quantum
  /\ now' = now + Quantum
  /\ UNCHANGED <<cache, pc, upd, resp, log, stored, call, batch, threads>>

NextConc ==
  \/ \E tid \in Tids, cache_key \in KeysConc : GetCall(tid, cache_key)
  \/ \E tid \in Tids : GetIn(tid)
  \/ \E tid \in Tids : GetTimestamp(tid)
  \/ \E tid \in Tids : GetData(tid)
  \/ \E tid \in Tids, cache_key \in KeysConc, data \in DataConc : Put(tid, cache_key, data)
  \/ \E tid \in Tids : Clear(tid)
  \/ TickConc

SpecConc == InitConc /\ [][NextConc]_vars

(***************************************************************************)
(* SpecRace: whole requests run by concurrent threads.  A list request     *)
(* without a query, a statistics request and a force refresh run           *)
(* fetch_fda_recalls and then fetch_cpsc_recalls; a step is one access to  *)
(* the shared dict or one adapter call.  stored holds, for the entry of    *)
(* each key, the number of clears that had happened when its value was     *)
(* fetched; log holds the upstream requests, the stores and the clears.    *)
(***************************************************************************)
MaxTicksRace == 1

TidsRace == {1, 2}

OpsRace == {"recalls", "stats", "update"}

FdaRaced == {Timeout, Response(200, DictBody(<<FdaMilk>>))}

CpscRaced == {Timeout, Response(200, ListBody(<<CpscMilk>>))}

\* a thread: its request and position, the fetch function it is in, the
\* local variables recalls, fda_recalls and cpsc_recalls, its reply, and:
\* the sources it sent a request to, the number of clears before each of its
\* two sequences was fetched, and before its own clear, and the exception
\* a get of its raised
IdleRace ==
  [op |-> "idle", pc |-> "idle", stage |-> "", recalls |-> <<>>,
   fda |-> <<>>, cpsc |-> <<>>, code |-> 0, data |-> <<>>, cached |-> FALSE,
   asked |-> {}, born |-> [fda |-> 0, cpsc |-> 0], cleared |-> 0, exc |-> ""]

KeyOfStage(stage) ==
  IF stage = "stats" THEN "stats"
  ELSE IF stage = "fda" THEN "fda_recalls" ELSE "cpsc_recalls"

\* the number of clears so far
Epoch == Cardinality({i \in 1..Len(log) : log[i].e = "clear"})

InitRace ==
  /\ cache = InitialCache
  /\ now = StartTime
  /\ pc = "idle"
  /\ upd = <<>>
  /\ resp = NoReply
  /\ log = <<>>
  /\ stored = [k \in Keys |-> None]
  /\ call = NoCall
  /\ batch = NoBatch
  /\ threads = [tid \in TidsRace |-> IdleRace]

\* fetch_fda_recalls or fetch_cpsc_recalls returns list to its caller, which
\* goes on: to fetch_cpsc_recalls, to generate_stats, or to its reply
Got(th, list, born) ==
  IF th.stage = "fda"
  THEN [th EXCEPT !.fda = list, !.born.fda = born, !.stage = "cpsc", !.pc = "in"]
  ELSE IF th.op = "stats"
  THEN [th EXCEPT !.cpsc = list, !.born.cpsc = born, !.pc = "summarize"]
  ELSE IF th.op = "recalls"
  THEN [th EXCEPT !.cpsc = list, !.born.cpsc = born, !.pc = "done",
                  !.code = 200, !.data = th.fda \o list]
  ELSE [th EXCEPT !.cpsc = list, !.born.cpsc = born, !.pc = "done", !.code = 200]

\* get_cached_data returns cached_data, or raises exc, in its caller:
\* get_stats answers 500 on an exception and the cached stats on a hit;
\* fetch_fda_recalls returns [] on an exception; fetch_cpsc_recalls goes to
\* its except branch; a hit that is truthy is returned
GetEnded(th, cached_data, exc, born) ==
  IF th.stage = "stats"
  THEN IF exc # "" THEN [th EXCEPT !.pc = "done", !.code = 500, !.exc = exc]
       ELSE IF cached_data # None
       THEN [th EXCEPT !.pc = "done", !.code = 200, !.data = cached_data,
                       !.cached = TRUE]
       ELSE [th EXCEPT !.stage = "fda", !.pc = "in"]
  ELSE IF exc # ""
  THEN (IF th.stage = "fda" THEN Got([th EXCEPT !.exc = exc], <<>>, born)
        ELSE [th EXCEPT !.pc = "except", !.exc = exc])
  ELSE IF IsTruthyList(cached_data) THEN Got(th, cached_data[1], born)
  ELSE [th EXCEPT !.pc = "fetch"]

\* a request arrives
RaceCall(tid, op) ==
  /\ threads[tid].op = "idle"
  /\ threads' = [threads EXCEPT ![tid] =
       [@ EXCEPT !.op = op,
                 !.stage = IF op = "stats" THEN "stats"
                           ELSE IF op = "recalls" THEN "fda" ELSE "",
                 !.pc = IF op = "update" THEN "clear" ELSE "in"]]
  /\ UNCHANGED <<cache, now, pc, upd, resp, log, stored, call, batch>>

\* update_data: cache.clear()
RaceClear(tid) ==
  /\ threads[tid].pc = "clear"
  /\ cache' = cache_clear(cache)
  /\ stored' = [k \in Keys |-> None]
  /\ log' = Append(log, Ev("clear", "", FALSE, None))
  /\ threads' = [threads EXCEPT ![tid] =
       [@ EXCEPT !.stage = "fda", !.pc = "in", !.cleared = Epoch + 1]]
  /\ UNCHANGED <<now, pc, upd, resp, call, batch>>

\* is_cache_valid: "if cache_key not in cache: return False"
RaceIn(tid) ==
  /\ threads[tid].pc = "in"
  /\ threads' = [threads EXCEPT ![tid] =
       IF KeyOfStage(@.stage) \notin DOMAIN cache
       THEN GetEnded(@, None, "", Epoch)
       ELSE [@ EXCEPT !.pc = "timestamp"]]
  /\ UNCHANGED <<cache, now, pc, upd, resp, log, stored, call, batch>>

\* is_cache_valid: the timestamp read and the comparison
RaceTimestamp(tid) ==
  /\ threads[tid].pc = "timestamp"
  /\ threads' = [threads EXCEPT ![tid] =
       IF KeyOfStage(@.stage) \notin DOMAIN cache
       THEN GetEnded(@, None, "KeyError", Epoch)
       ELSE IF is_cache_valid(cache, now, KeyOfStage(@.stage))
       THEN [@ EXCEPT !.pc = "data"]
       ELSE GetEnded(@, None, "", Epoch)]
  /\ UNCHANGED <<cache, now, pc, upd, resp, log, stored, call, batch>>

\* get_cached_data: return cache[cache_key]['data']
RaceData(tid) ==
  /\ threads[tid].pc = "data"
  /\ threads' = [threads EXCEPT ![tid] =
       IF KeyOfStage(@.stage) \notin DOMAIN cache
       THEN GetEnded(@, None, "KeyError", Epoch)
       ELSE GetEnded(@, cache[KeyOfStage(@.stage)].data, "",
                     IF stored[KeyOfStage(@.stage)] = None THEN Epoch
                     ELSE stored[KeyOfStage(@.stage)][1].epoch)]
  /\ UNCHANGED <<cache, now, pc, upd, resp, log, stored, call, batch>>

\* recalls = fetch_fda_recalls_with_search() or
\* fetch_cpsc_recalls_with_search(), which meets the upstream outcome o
RaceFetch(tid, o) ==
  /\ threads[tid].pc = "fetch"
  /\ LET Assign(a) ==
           /\ threads' = [threads EXCEPT ![tid] =
                IF a.exc # ""
                THEN (IF @.stage = "fda" THEN Got(@, <<>>, Epoch)
                      ELSE [@ EXCEPT !.pc = "except"])
                ELSE IF @.stage = "fda"
                THEN [@ EXCEPT !.recalls = a.ret, !.pc = "put",
                               !.asked = @ \cup {"FDA"}, !.born.fda = Epoch]
                ELSE [@ EXCEPT !.recalls = a.ret, !.pc = "put",
                               !.asked = @ \cup {"CPSC"}, !.born.cpsc = Epoch]]
           /\ log' = log \o [i \in 1..Len(a.http) |->
                               Ev("http", KeyOfStage(threads[tid].stage), FALSE, <<now>>)]
     IN IF threads[tid].stage = "fda"
        THEN o \in FdaRaced /\ Assign(fetch_fda_recalls_with_search(<<>>, o, o))
        ELSE o \in CpscRaced /\ Assign(fetch_cpsc_recalls_with_search(<<>>, o, o))
  /\ UNCHANGED <<cache, now, pc, upd, resp, stored, call, batch>>

\* set_cache_data(key, recalls), and the return of recalls
RacePut(tid) ==
  /\ threads[tid].pc = "put"
  /\ LET th == threads[tid]
         key == KeyOfStage(th.stage)
     IN /\ cache' = set_cache_data(cache, now, key, th.recalls)
        /\ stored' = [stored EXCEPT ![key] =
                        <<[v |-> th.recalls, at |-> now, epoch |-> th.born[th.stage]]>>]
        /\ log' = Append(log, Ev("put", key, FALSE,
                                 <<[data |-> <<th.recalls>>, timestamp |-> now]>>))
        /\ threads' = [threads EXCEPT ![tid] = Got(th, th.recalls, th.born[th.stage])]
  /\ UNCHANGED <<now, pc, upd, resp, call, batch>>

\* fetch_cpsc_recalls, except branch: set_cache_data('cpsc_recalls', [])
RaceExcept(tid) ==
  /\ threads[tid].pc = "except"
  /\ cache' = set_cache_data(cache, now, "cpsc_recalls", <<>>)
  /\ stored' = [stored EXCEPT !["cpsc_recalls"] =
                  <<[v |-> <<>>, at |-> now, epoch |-> Epoch]>>]
  /\ log' = Append(log, Ev("put", "cpsc_recalls", FALSE,
                           <<[data |-> <<<<>>>>, timestamp |-> now]>>))
  /\ threads' = [threads EXCEPT ![tid] = Got(@, <<>>, Epoch)]
  /\ UNCHANGED <<now, pc, upd, resp, call, batch>>

\* get_stats: generate_stats, set_cache_data('stats', stats) and the reply
RaceSummarize(tid) ==
  /\ threads[tid].pc = "summarize"
  /\ LET th == threads[tid]
         Store(stats) ==
           /\ cache' = set_cache_data(cache, now, "stats", stats)
           /\ stored' = [stored EXCEPT !["stats"] =
                <<[v |-> stats, at |-> now,
                   epoch |-> IF th.born.fda < th.born.cpsc
                             THEN th.born.fda ELSE th.born.cpsc]>>]
           /\ log' = Append(log, Ev("put", "stats", FALSE,
                                    <<[data |-> <<stats>>, timestamp |-> now]>>))
           /\ threads' = [threads EXCEPT ![tid] =
                [th EXCEPT !.pc = "done", !.code = 200, !.data = <<stats>>]]
     IN Store(generate_stats(th.fda, th.cpsc, now))
  /\ UNCHANGED <<now, pc, upd, resp, call, batch>>

\* time passes, also while requests are under way
TickRace ==
  /\ now < StartTime + MaxTicksRace * Quantum
  /\ now' = now + Quantum
  /\ UNCHANGED <<cache, pc, upd, resp, log, stored, call, batch, threads>>

NextRace ==
  \/ \E tid \in TidsRace, op \in OpsRace : RaceCall(tid, op)
  \/ \E tid \in TidsRace : RaceClear(tid)
  \/ \E tid \in TidsRace : RaceIn(tid)
  \/ \E tid \in TidsRace : RaceTimestamp(tid)
  \/ \E tid \in TidsRace : RaceData(tid)
  \/ \E tid \in TidsRace, o \in FdaRaced \cup CpscRaced : RaceFetch(tid, o)
  \/ \E tid \in TidsRace : RacePut(tid)
  \/ \E tid \in TidsRace : RaceExcept(tid)
  \/ \E tid \in TidsRace : RaceSummarize(tid)
  \/ TickRace

SpecRace == InitRace /\ [][NextRace]_vars

(***************************************************************************)
(* Statistics: topReasons and recentCount                                  *)
(***************************************************************************)
\* the records that were summarized
Summarized == batch.fda_recalls \o batch.cpsc_recalls

\* the key a reason is grouped under: its first 50 characters and the marker
\* when it is longer than 50 characters, the reason itself otherwise
GroupKey(reason) ==
  IF Len(reason) <= 50 THEN reason
  ELSE [i \in 1..53 |-> IF i <= 50 THEN reason[i] ELSE "."]

\* the indices of the records that are grouped, given the reasons left out
Grouped(recalls, leftOut) ==
  {i \in 1..Len(recalls) : recalls[i].reason_for_recall \notin leftOut}

GroupSize(recalls, leftOut, key) ==
  Cardinality({i \in Grouped(recalls, leftOut) :
                 GroupKey(recalls[i].reason_for_recall) = key})

FirstSeen(recalls, leftOut, key) ==
  CHOOSE i \in Grouped(recalls, leftOut) :
    /\ GroupKey(recalls[i].reason_for_recall) = key
    /\ \A j \in Grouped(recalls, leftOut) :
         GroupKey(recalls[j].reason_for_recall) = key => i <= j

\* group a comes before group b: more records, or as many and seen first
RanksBefore(recalls, leftOut, a, b) ==
  \/ GroupSize(recalls, leftOut, a) > GroupSize(recalls, leftOut, b)
  \/ /\ GroupSize(recalls, leftOut, a) = GroupSize(recalls, leftOut, b)
     /\ FirstSeen(recalls, leftOut, a) < FirstSeen(recalls, leftOut, b)

\* top is the 5 first groups of recalls, in rank order, with their sizes
IsTopReasons(top, recalls, leftOut) ==
  LET keys == {GroupKey(recalls[i].reason_for_recall) : i \in Grouped(recalls, leftOut)}
  IN /\ Len(top) = (IF Cardinality(keys) < 5 THEN Cardinality(keys) ELSE 5)
     /\ \A i \in 1..Len(top) :
          /\ top[i].reason \in keys
          /\ top[i].count = GroupSize(recalls, leftOut, top[i].reason)
     /\ \A i \in 1..Len(top) : \A j \in (i + 1)..Len(top) :
          RanksBefore(recalls, leftOut, top[i].reason, top[j].reason)
     /\ \A key \in keys :
          (\A i \in 1..Len(top) : top[i].reason # key)
            => \A i \in 1..Len(top) : RanksBefore(recalls, leftOut, top[i].reason, key)

\* C16: the top reasons of a summary are the groups of its records by
\* reason_for_recall cut to 50 characters plus the marker '...', each with
\* the number of its records, at most 5 of them, by count descending and,
\* for equal counts, in first-seen order.
C16_TopReasons ==
  batch.stats # None =>
    IsTopReasons(batch.stats[1].top_reasons, Summarized, {})

\* the same, of the records whose reason is neither null, empty nor 'N/A'
C16_TopReasonsOfGivenReasons ==
  batch.stats # None =>
    IsTopReasons(batch.stats[1].top_reasons, Summarized, {Null, <<>>, NA})

\* two reasons that differ after their 50th character are in one group of 2,
\* and more than 5 groups were there
C16_MergedWitness ==
  /\ batch.stats # None
  /\ \E i, j \in 1..Len(Summarized) :
       /\ Summarized[i].reason_for_recall # Summarized[j].reason_for_recall
       /\ GroupKey(Summarized[i].reason_for_recall)
            = GroupKey(Summarized[j].reason_for_recall)
       /\ \E n \in 1..Len(batch.stats[1].top_reasons) :
            /\ batch.stats[1].top_reasons[n].reason
                 = GroupKey(Summarized[i].reason_for_recall)
            /\ batch.stats[1].top_reasons[n].count = 2
  /\ Cardinality({GroupKey(Summarized[i].reason_for_recall) :
                    i \in Grouped(Summarized, {NA})}) > 5

\* the date is a well-formed YYYYMMDD calendar date: 8 digits, of a year
\* from 1 on, a month of the year and a day of the month
WellFormedDate(date) ==
  /\ Len(date) = 8
  /\ \A i \in 1..8 : IsDigit(date[i])
  /\ 100 * Num2(date, 1) + Num2(date, 3) >= 1
  /\ Num2(date, 5) \in 1..12
  /\ Num2(date, 7) \in 1..DaysIn(100 * Num2(date, 1) + Num2(date, 3), Num2(date, 5))

\* the clock reading at 00:00:00 of a well-formed date
Midnight(date) ==
  (Ordinal(100 * Num2(date, 1) + Num2(date, 3), Num2(date, 5), Num2(date, 7))
     - Ordinal(1970, 1, 1)) * 86400

\* the number of records dated within the 30 days up to t, or from then on
RecentCount(recalls, t, upTo) ==
  Cardinality({i \in 1..Len(recalls) :
                 /\ WellFormedDate(recalls[i].date)
                 /\ t - 30 * 86400 <= Midnight(recalls[i].date)
                 /\ (upTo => Midnight(recalls[i].date) <= t)})

\* C17: recent_recalls is the number of records whose date is a well-formed
\* YYYYMMDD date d with now - 30 days <= d <= now; the records with another
\* date are left out of it and are counted in total_recalls.
C17_RecentCount ==
  batch.stats # None =>
    /\ batch.stats[1].recent_recalls = RecentCount(Summarized, now, TRUE)
    /\ batch.stats[1].total_recalls = Len(Summarized)

\* the same without the upper end of the window, of the records whose day is
\* not written with a space
C17_RecentCountFrom30DaysAgo ==
  (/\ batch.stats # None
   /\ \A i \in 1..Len(Summarized) :
        Len(Summarized[i].date) = 8 => Summarized[i].date[7] # " ") =>
    /\ batch.stats[1].recent_recalls = RecentCount(Summarized, now, FALSE)
    /\ batch.stats[1].total_recalls = Len(Summarized)

(***************************************************************************)
(* Statistics requests                                                     *)
(***************************************************************************)
\* a statistics request is answered in this step
StatsStep == pc = "idle" /\ pc' = "reply" /\ resp'.op = "stats"

\* an entry under the key exists and is younger than 3600 seconds
FreshEntry(key) == key \in DOMAIN cache /\ now - cache[key].timestamp < 3600

\* the results of the step's adapter calls for a source
AdapterResults(src) ==
  {log'[i].d[1] : i \in {j \in 1..Len(log') : log'[j].e = "adapter" /\ log'[j].k = src}}

\* the sequence a step summarizes for a source: the cached one when the
\* entry is fresh and holds records, the one its adapter call returned
\* otherwise
CachedOrFetched(key, src, seq) ==
  IF FreshEntry(key) /\ cache[key].data # None /\ cache[key].data # <<<<>>>>
  THEN seq = cache[key].data[1] /\ AdapterResults(src) = {}
  ELSE AdapterResults(src) = {seq}

\* C13: a statistics request answers cached = true with the stored stats,
\* sends no upstream request and writes no cache entry, exactly when a stats
\* entry younger than 3600 seconds exists; otherwise it answers cached =
\* false with the stats of the cached-or-fetched FDA and CPSC sequences and
\* stores them under the stats key.
C13_StatsCacheFlag ==
  [][StatsStep =>
       /\ resp'.success /\ resp'.code = 200
       /\ IF FreshEntry("stats")
          THEN /\ "cached" \in resp'.flags
               /\ resp'.data = cache["stats"].data
               /\ cache' = cache
               /\ \A i \in 1..Len(log') : log'[i].e \notin {"http", "adapter", "put"}
          ELSE /\ "cached" \notin resp'.flags
               /\ \E fda_recalls \in AdapterResults("FDA") \cup {cache[k].data[1] : k \in {k \in (DOMAIN cache) \cap {"fda_recalls"} : cache[k].data # None}},
                     cpsc_recalls \in AdapterResults("CPSC") \cup {cache[k].data[1] : k \in {k \in (DOMAIN cache) \cap {"cpsc_recalls"} : cache[k].data # None}} :
                    /\ CachedOrFetched("fda_recalls", "FDA", fda_recalls)
                    /\ CachedOrFetched("cpsc_recalls", "CPSC", cpsc_recalls)
                    /\ resp'.data = <<generate_stats(fda_recalls, cpsc_recalls, now)>>
               /\ "stats" \in DOMAIN cache'
               /\ cache'["stats"] = [data |-> resp'.data, timestamp |-> now]
  ]_vars

\* a statistics request was answered from the cache, with stats of records
C13_Witness ==
  /\ pc = "reply" /\ resp.op = "stats" /\ "cached" \in resp.flags
  /\ resp.data[1].total_recalls > 0

(***************************************************************************)
(* Degraded upstream                                                       *)
(***************************************************************************)
\* C14: whatever the upstream sources answer, every list request and every
\* statistics request returns a successful, structurally valid result.
C14_NeverFails ==
  (pc = "reply" /\ resp.op \in {"recalls", "stats"}) =>
    /\ resp.success /\ resp.code = 200
    /\ resp.op = "recalls" =>
         /\ resp.count = Len(resp.data)
         /\ \A i \in 1..Len(resp.data) : resp.data[i].source \in {FDA, CPSC}
    /\ resp.op = "stats" =>
         /\ Len(resp.data) = 1
         /\ resp.data[1].total_recalls
              = resp.data[1].fda_recalls + resp.data[1].cpsc_recalls

\* the same of the requests that carry no classification filter
C14_NeverFailsUnfiltered ==
  (pc = "reply" /\ resp.op \in {"recalls", "stats"}
     /\ resp.args.classification = <<>>) => resp.success /\ resp.code = 200

(***************************************************************************)
(* Concurrent cache operations                                             *)
(***************************************************************************)
\* the entries that puts stored under key
PutEntries(key) ==
  {log[i].d[1] : i \in {j \in 1..Len(log) : log[j].e = "put" /\ log[j].k = key}}

\* a get that returned a value
Returned(th) == th.op = "get" /\ th.pc = "done" /\ th.exc = "" /\ th.ret # None

\* C15: a get that interleaves with puts for its key returns a miss or the
\* complete value of an entry that a put stored, and that entry's timestamp
\* is less than 3600 seconds before the get's validity check.
C15_AtomicPut ==
  \A tid \in Tids :
    Returned(threads[tid]) =>
      \E entry \in PutEntries(threads[tid].key) :
        /\ threads[tid].entry = <<entry>>
        /\ threads[tid].ret = entry.data
        /\ threads[tid].at - entry.timestamp < 3600

\* a get checked the timestamp of one entry and returned the value of the
\* entry that a put stored after that check
C15_Witness ==
  \E tid \in Tids :
    /\ Returned(threads[tid])
    /\ threads[tid].entry[1].timestamp > threads[tid].at

\* the last of the stores and clears so far was a clear
RECURSIVE ClearedLast(_)
ClearedLast(events) ==
  IF events = <<>> THEN FALSE
  ELSE IF events[Len(events)].e = "get"
  THEN ClearedLast(SubSeq(events, 1, Len(events) - 1))
  ELSE events[Len(events)].e = "clear"

\* this step is a clear
ClearStep == Len(log') = Len(log) + 1 /\ log'[Len(log')].e = "clear"

\* what a get of key returns, run as a whole on cache c at time t
GetResult(c, t, key) ==
  IF key \in DOMAIN c /\ t - c[key].timestamp < 3600 THEN c[key].data ELSE <<>>

\* C18: a clear that follows a clear, with no store in between, leaves the
\* cache exactly as it was, and every get returns what it returned before.
C18_ClearIdempotent ==
  [][(ClearStep /\ ClearedLast(log)) =>
       /\ cache' = cache
       /\ \A key \in Keys : GetResult(cache', now', key) = GetResult(cache, now, key)
  ]_vars

\* a store, two clears in a row and then a get
C18_Witness ==
  \E i \in 1..Len(log) :
    /\ i + 3 <= Len(log)
    /\ log[i].e = "put" /\ log[i + 1].e = "clear" /\ log[i + 2].e = "clear"
    /\ log[i + 3].e = "get"

(***************************************************************************)
(* CPSC classification                                                     *)
(***************************************************************************)
\* the records of source CPSC in a sequence of records
CpscRecordsOf(recalls) ==
  {recalls[i] : i \in {j \in 1..Len(recalls) : recalls[j].source = <<"C","P","S","C">>}}

\* the records held in the cpsc_recalls cache entry
CpscCached ==
  IF "cpsc_recalls" \in DOMAIN cache /\ cache["cpsc_recalls"].data # None
  THEN CpscRecordsOf(cache["cpsc_recalls"].data[1]) ELSE {}

\* the records of source CPSC in the reply to a list or search request
CpscReturned ==
  IF pc = "reply" /\ resp.op \in {"recalls", "search"}
  THEN CpscRecordsOf(resp.data) ELSE {}

\* C19: every record of source CPSC, in the cpsc_recalls cache entry or in
\* the reply to a list or search request, has classification
\* 'Consumer Product'.
C19_CpscClassification ==
  \A recall \in CpscCached \cup CpscReturned :
    recall.classification
      = <<"C","o","n","s","u","m","e","r"," ","P","r","o","d","u","c","t">>

\* CPSC records are in the cache and in the reply to a search request
C19_Witness ==
  /\ CpscCached # {}
  /\ resp.op = "search" /\ CpscReturned # {}

(***************************************************************************)
(* Cache entry lifecycle                                                   *)
(***************************************************************************)
\* the entry under key, if there is one
EntryOf(c, key) == IF key \in DOMAIN c THEN <<c[key]>> ELSE <<>>

\* a step in which the fetch for a source failed leaves the source's entry
\* as it was
KeepsEntryOnFailure(src, key, o) ==
  IsFailure(src, o) => EntryOf(cache', key) = EntryOf(cache, key)

\* the steps of the requests without a query, for every upstream outcome
FailedFetchKeepsEntry ==
  /\ \A args \in ArgsListed, of1 \in FdaServed, oc1 \in CpscServed :
       GetRecalls(args, of1, of1, oc1, oc1) =>
         /\ KeepsEntryOnFailure("FDA", "fda_recalls", of1)
         /\ KeepsEntryOnFailure("CPSC", "cpsc_recalls", oc1)
  /\ \A of1 \in FdaServed, oc1 \in CpscServed :
       GetStats(of1, oc1) =>
         /\ KeepsEntryOnFailure("FDA", "fda_recalls", of1)
         /\ KeepsEntryOnFailure("CPSC", "cpsc_recalls", oc1)
  /\ \A of1 \in FdaServed :
       UpdateFetchFda(of1) => KeepsEntryOnFailure("FDA", "fda_recalls", of1)
  /\ \A oc1 \in CpscServed :
       UpdateFetchCpsc(oc1) => KeepsEntryOnFailure("CPSC", "cpsc_recalls", oc1)

\* the steps of the requests that carry a query, and of the probe, leave the
\* two entries as they were
OnlyNoQueryWrites ==
  ((\E args \in ArgsSearched, of1 \in FdaSearched, oc1 \in CpscSearched :
      GetRecalls(args, of1, of1, oc1, oc1))
   \/ (\E args \in ArgsQueried, of1 \in FdaSearched, oc1 \in CpscSearched :
         SearchRecalls(args, of1, of1, oc1, oc1))
   \/ (\E of1 \in FdaProbed, oc1 \in CpscProbed : TestApi(of1, oc1)))
  => \A key \in {"fda_recalls", "cpsc_recalls"} :
       EntryOf(cache', key) = EntryOf(cache, key)

\* an entry is removed by the clear of a force refresh only
OnlyClearRemoves ==
  \A key \in {"fda_recalls", "cpsc_recalls"} :
    (key \in DOMAIN cache /\ key \notin DOMAIN cache') => UpdateClear

\* C20: the fda_recalls and cpsc_recalls entries are created or overwritten
\* only by a request without a query whose fetch for that source succeeded;
\* a failed fetch leaves the entry's data and timestamp as they were; and
\* only a force refresh removes an entry.
C20_EntryLifecycle ==
  [][FailedFetchKeepsEntry /\ OnlyNoQueryWrites /\ OnlyClearRemoves]_vars

\* the same without the failed fetches
C20_WritesAndRemovals == [][OnlyNoQueryWrites /\ OnlyClearRemoves]_vars

(***************************************************************************)
(* Cached statistics and cached records                                    *)
(***************************************************************************)
\* an entry under key exists, is younger than 3600 seconds and holds a value
ValidEntry(key) ==
  /\ key \in DOMAIN cache
  /\ now - cache[key].timestamp < 3600
  /\ cache[key].data # <<>>

\* the cached stats count the sequences that are cached now
StatsAgree ==
  /\ cache["stats"].data[1].fda_recalls = Len(cache["fda_recalls"].data[1])
  /\ cache["stats"].data[1].cpsc_recalls = Len(cache["cpsc_recalls"].data[1])
  /\ cache["stats"].data[1].total_recalls
       = Len(cache["fda_recalls"].data[1]) + Len(cache["cpsc_recalls"].data[1])

\* C22: whenever the stats entry and the fda_recalls and cpsc_recalls
\* entries are valid, the cached stats hold the lengths of the cached FDA and
\* CPSC sequences as their per-source counts, and the sum as their total.
C22_StatsAgree ==
  (ValidEntry("stats") /\ ValidEntry("fda_recalls") /\ ValidEntry("cpsc_recalls"))
    => StatsAgree

\* the same in the states where the stats entry was written after the two
\* sequences were
C22_StatsAgreeWhenNewest ==
  (/\ ValidEntry("stats") /\ ValidEntry("fda_recalls") /\ ValidEntry("cpsc_recalls")
   /\ cache["stats"].timestamp > cache["fda_recalls"].timestamp
   /\ cache["stats"].timestamp > cache["cpsc_recalls"].timestamp)
    => StatsAgree

\* stats of a cached FDA sequence that held records outlive that sequence:
\* it expired and was fetched again, with another number of records
C22_OutlivedWitness ==
  /\ ValidEntry("stats") /\ ValidEntry("fda_recalls") /\ ValidEntry("cpsc_recalls")
  /\ cache["stats"].data[1].fda_recalls > 0
  /\ cache["fda_recalls"].timestamp > cache["stats"].timestamp
  /\ Len(cache["fda_recalls"].data[1]) > cache["stats"].data[1].fda_recalls

(***************************************************************************)
(* Concurrent requests                                                     *)
(***************************************************************************)
\* the clock reading of an upstream request or of a store
EventTime(ev) == IF ev.e = "put" THEN ev.d[1].timestamp ELSE ev.d[1]

\* two upstream requests for a key, or two stores under it, less than 3600
\* seconds apart and with no clear in between
TwiceInWindow(i, j) ==
  /\ i < j
  /\ log[i].e \in {"http", "put"} /\ log[j].e = log[i].e
  /\ log[i].k \in {"fda_recalls", "cpsc_recalls"} /\ log[j].k = log[i].k
  /\ EventTime(log[j]) - EventTime(log[i]) < 3600
  /\ \A n \in i..j : log[n].e # "clear"

\* C21: while no force refresh clears the cache, the upstream of a source is
\* asked, and the source's key is written, at most once in 3600 seconds,
\* however the requests without a query interleave.
C21_SingleFetch ==
  \A i, j \in 1..Len(log) : ~TwiceInWindow(i, j)

\* two requests stored records that each of them fetched, under one key at
\* one time
C21_RaceWitness ==
  \E i, j \in 1..Len(log) :
    /\ TwiceInWindow(i, j) /\ log[i].e = "put"
    /\ log[i].d[1].data # <<<<>>>> /\ log[j].d[1].data # <<<<>>>>

\* a request that has ended
Ended(th) == th.op # "idle" /\ th.pc = "done"

\* C23: a get that interleaves with the clear of a force refresh ends as a
\* hit or a miss and never fails: no statistics request ends in an error,
\* and no list request returns an empty sequence of a source whose upstream
\* it did not ask.
C23_GetSafe ==
  \A tid \in TidsRace :
    /\ threads[tid].exc = ""
    /\ Ended(threads[tid]) =>
         /\ threads[tid].op = "stats" => threads[tid].code = 200
         /\ threads[tid].op = "recalls" =>
              /\ threads[tid].fda = <<>> => "FDA" \in threads[tid].asked
              /\ threads[tid].cpsc = <<>> => "CPSC" \in threads[tid].asked

\* the same of the requests none of whose gets met a clear
C23_SafeUnlessCleared ==
  \A tid \in TidsRace :
    (Ended(threads[tid]) /\ threads[tid].exc = "") =>
      /\ threads[tid].op = "stats" => threads[tid].code = 200
      /\ threads[tid].op = "recalls" =>
           /\ threads[tid].fda = <<>> => "FDA" \in threads[tid].asked
           /\ threads[tid].cpsc = <<>> => "CPSC" \in threads[tid].asked

\* a statistics request ended in an error
C23_StatsErrorWitness ==
  \E tid \in TidsRace :
    Ended(threads[tid]) /\ threads[tid].op = "stats" /\ threads[tid].code = 500

\* a list request returned no FDA records without asking the FDA upstream
C23_EmptyListWitness ==
  \E tid \in TidsRace :
    /\ Ended(threads[tid]) /\ threads[tid].op = "recalls"
    /\ threads[tid].fda = <<>> /\ "FDA" \notin threads[tid].asked

\* C24: once a force refresh has completed, no valid cache entry holds a
\* value that was fetched, or computed from data fetched, before that
\* refresh cleared the cache.
C24_NoResurrection ==
  \A tid \in TidsRace :
    (threads[tid].op = "update" /\ threads[tid].pc = "done") =>
      \A key \in Keys :
        (/\ key \in DOMAIN cache
         /\ now - cache[key].timestamp < 3600
         /\ stored[key] # <<>>)
          => stored[key][1].epoch >= threads[tid].cleared

\* the same of a force refresh that ran with no other request
C24_RefreshAlone ==
  \A tid \in TidsRace :
    (/\ threads[tid].op = "update" /\ threads[tid].pc = "done"
     /\ \A other \in TidsRace \ {tid} : threads[other].op = "idle") =>
      \A key \in Keys :
        (key \in DOMAIN cache /\ stored[key] # <<>>)
          => stored[key][1].epoch >= threads[tid].cleared

\* after a force refresh completed, the valid fda_recalls entry holds records
\* that a list or statistics request fetched before the refresh's clear
C24_ResurrectedWitness ==
  \E tid \in TidsRace :
    /\ threads[tid].op = "update" /\ threads[tid].pc = "done"
    /\ "fda_recalls" \in DOMAIN cache
    /\ now - cache["fda_recalls"].timestamp < 3600
    /\ stored["fda_recalls"] # <<>>
    /\ stored["fda_recalls"][1].v # <<>>
    /\ stored["fda_recalls"][1].epoch < threads[tid].cleared
    /\ \A other \in TidsRace \ {tid} : threads[other].op # "update"

============================================================================
